---- MODULE Spec2Model ----
\* A model of the painter layer of residue2: the barrier-inserting command
\* recorder (painter/src/command.rs), the presentation surface manager
\* (painter/src/sheets.rs), the fence-like CpuFuture (painter/src/sync.rs)
\* and the frame loop that drives them (src/lib.rs, Canvas::paint).
EXTENDS Integers, Sequences, FiniteSets, TLC

\* ------------------------------------------------------------------
\* Bounds of the model
\* ------------------------------------------------------------------
MaxCmds == 3

\* ------------------------------------------------------------------
\* Part 1: GpuCommand and CommandBuffer::record
\* ------------------------------------------------------------------
VARIABLES
    commands,        \* the &[GpuCommand] handed to record
    stream,          \* what record has put into the command buffer, in order
    record_result,   \* "none" before the call, then "ok" / "err_begin" / "err_end"
    record_answers   \* the device's answers to begin_command_buffer and end_command_buffer

\* enum ImageAccess
ImageAccess ==
    {"None", "TransferRead", "TransferWrite", "ShaderRead", "PipelineAttachment", "Present"}

\* Two image handles: enough for a blit between different images and for two
\* images with independent declared sequences.
Images == {1, 2}

\* The accesses the enumerated command lists name in ImageAccessInit and
\* ImageAccessHint. record only ever compares accesses for equality, and
\* BlitFullImage adds TransferRead.
InitAccesses == {"None", "TransferWrite"}
HintAccesses == {"TransferWrite", "ShaderRead"}

\* Option<T>: None is <<>>, Some(x) is <<x>>.
Some(x) == <<x>>
Nothing == <<>>

\* enum GpuCommand, one record shape for all variants (src is the only image
\* of the one-image variants; 0 stands for "no such field").
ImageAccessInit(image, access) ==
    [kind |-> "ImageAccessInit", src |-> image, dst |-> 0, access |-> access]
ImageAccessHint(image, access) ==
    [kind |-> "ImageAccessHint", src |-> image, dst |-> 0, access |-> access]
BlitFullImage(s, d) ==
    [kind |-> "BlitFullImage", src |-> s, dst |-> d, access |-> "None"]
RunRenderPass ==
    [kind |-> "RunRenderPass", src |-> 0, dst |-> 0, access |-> "None"]
CopyBufferToImageComplete(image) ==
    [kind |-> "CopyBufferToImageComplete", src |-> image, dst |-> 0, access |-> "None"]

GpuCommand ==
    {ImageAccessInit(i, a) : i \in Images, a \in InitAccesses}
    \cup {ImageAccessHint(i, a) : i \in Images, a \in HintAccesses}
    \cup {BlitFullImage(s, d) : s \in Images, d \in Images}
    \cup {RunRenderPass}
    \cup {CopyBufferToImageComplete(i) : i \in Images}

CommandLists == UNION {[1..n -> GpuCommand] : n \in 0..MaxCmds}

\* struct ImageTransitionInfo
ImageTransitionInfo(image, old_access, new_access) ==
    [image |-> image, old_access |-> old_access, new_access |-> new_access]

\* GpuCommand::access_transitions
access_transitions_InitAsHint(command) ==
    CASE command.kind \in {"ImageAccessInit", "ImageAccessHint"} ->
            <<ImageTransitionInfo(command.src, Nothing, Some(command.access))>>
      [] command.kind = "BlitFullImage" ->
            <<ImageTransitionInfo(command.src, Nothing, Some("TransferRead")),
              ImageTransitionInfo(command.dst, Nothing, Some("TransferWrite"))>>
      [] command.kind = "RunRenderPass" -> <<>>
      [] command.kind = "CopyBufferToImageComplete" ->
            <<ImageTransitionInfo(command.src, Nothing, Some("TransferWrite"))>>

access_transitions_BlitSwapped(command) ==
    CASE command.kind = "ImageAccessInit" ->
            <<ImageTransitionInfo(command.src, Some("None"), Some(command.access))>>
      [] command.kind = "ImageAccessHint" ->
            <<ImageTransitionInfo(command.src, Nothing, Some(command.access))>>
      [] command.kind = "BlitFullImage" ->
            <<ImageTransitionInfo(command.src, Nothing, Some("TransferWrite")),
              ImageTransitionInfo(command.dst, Nothing, Some("TransferRead"))>>
      [] command.kind = "RunRenderPass" -> <<>>
      [] command.kind = "CopyBufferToImageComplete" ->
            <<ImageTransitionInfo(command.src, Nothing, Some("TransferWrite"))>>

access_transitions(command) ==
    CASE command.kind = "ImageAccessInit" ->
            <<ImageTransitionInfo(command.src, Some("None"), Some(command.access))>>
      [] command.kind = "ImageAccessHint" ->
            <<ImageTransitionInfo(command.src, Nothing, Some(command.access))>>
      [] command.kind = "BlitFullImage" ->
            <<ImageTransitionInfo(command.src, Nothing, Some("TransferRead")),
              ImageTransitionInfo(command.dst, Nothing, Some("TransferWrite"))>>
      [] command.kind = "RunRenderPass" -> <<>>
      [] command.kind = "CopyBufferToImageComplete" ->
            <<ImageTransitionInfo(command.src, Nothing, Some("TransferWrite"))>>

\* The key of image_accesses.entry(..): the vk::Image handle of the transition.
EntryKey_Shared(transition) == 0

EntryKey(transition) == transition.image

\* The index the discovery pass schedules a new access at: command_idx + 1.
ScheduledAt_Late(command_idx) == command_idx + 2

ScheduledAt(command_idx) == command_idx + 1

\* The index the emission pass looks up before command command_idx.
LookedUpAt_Same(command_idx) == command_idx

LookedUpAt(command_idx) == command_idx + 1

\* Whether a transition's old_access is recorded as the assumed starting
\* state: only when it is Some and the image has no entry yet
\* (command.rs 209-216).
RecordsAssumedStart_Always(transition, transitions) ==
    transition.old_access # Nothing

RecordsAssumedStart(transition, transitions) ==
    transition.old_access # Nothing /\ Len(transitions) = 0

\* One iteration of the inner loop of the discovery pass (command.rs 205-229).
\* image_accesses maps a key to (image, Vec<(usize, ImageAccess)>).
DiscoverTransition(image_accesses, transition, command_idx) ==
    LET key == EntryKey(transition)
        entry == IF key \in DOMAIN image_accesses
                 THEN image_accesses[key]
                 ELSE [image |-> transition.image, transitions |-> <<>>]
        afterOld ==
            IF RecordsAssumedStart(transition, entry.transitions)
            THEN Append(entry.transitions, <<command_idx, transition.old_access[1]>>)
            ELSE entry.transitions
        new_access == transition.new_access[1]
        afterNew ==
            IF transition.new_access = Nothing THEN afterOld
            ELSE IF Len(afterOld) > 0
                 THEN IF afterOld[Len(afterOld)][2] # new_access
                      THEN Append(afterOld, <<ScheduledAt(command_idx), new_access>>)
                      ELSE afterOld
                 ELSE Append(afterOld, <<ScheduledAt(command_idx), new_access>>)
    IN [k \in DOMAIN image_accesses \cup {key} |->
            IF k = key THEN [image |-> entry.image, transitions |-> afterNew]
            ELSE image_accesses[k]]

RECURSIVE DiscoverCommand(_, _, _, _)
DiscoverCommand(image_accesses, transitions, t, command_idx) ==
    IF t > Len(transitions) THEN image_accesses
    ELSE DiscoverCommand(DiscoverTransition(image_accesses, transitions[t], command_idx),
                         transitions, t + 1, command_idx)

\* The discovery pass (command.rs 202-230); command_idx counts from 0.
RECURSIVE DiscoverFrom(_, _, _)
DiscoverFrom(image_accesses, cmds, command_idx) ==
    IF command_idx >= Len(cmds) THEN image_accesses
    ELSE DiscoverFrom(
            DiscoverCommand(image_accesses, access_transitions(cmds[command_idx + 1]),
                            1, command_idx),
            cmds, command_idx + 1)

EmptyMap == [k \in {} |-> 0]

Discover(cmds) == DiscoverFrom(EmptyMap, cmds, 0)

\* transitions_needed.iter().position(|(x, _)| *x == wanted): the 0-based
\* index of the first entry scheduled at wanted, -1 for None.
RECURSIVE PositionFrom(_, _, _)
PositionFrom(transitions_needed, wanted, j) ==
    IF j > Len(transitions_needed) THEN -1
    ELSE IF transitions_needed[j][1] = wanted THEN j - 1
    ELSE PositionFrom(transitions_needed, wanted, j + 1)

Position(transitions_needed, wanted) == PositionFrom(transitions_needed, wanted, 1)

\* Entries of the recorded stream.
PipelineBarrier(image, access_old, access_new) ==
    [ev |-> "cmd_pipeline_barrier", image |-> image, old |-> access_old,
     new |-> access_new, idx |-> -1]

\* What the match on the command emits (command.rs 266-399); the entry keeps
\* the list index of the command. ImageAccessInit and ImageAccessHint emit
\* nothing: their entry only marks that the loop has passed the command.
Emitted(command, command_idx) ==
    [ev |-> CASE command.kind = "BlitFullImage" -> "cmd_blit_image"
              [] command.kind = "RunRenderPass" -> "cmd_render_pass"
              [] command.kind = "CopyBufferToImageComplete" -> "cmd_copy_buffer_to_image"
              [] OTHER -> "nothing",
     image |-> 0, old |-> "None", new |-> "None", idx |-> command_idx]

\* ImageAccess::get_image_layout (image.rs 89-104).
get_image_layout(access, is_depth_format) ==
    CASE access = "None" -> "UNDEFINED"
      [] access = "TransferRead" -> "TRANSFER_SRC_OPTIMAL"
      [] access = "TransferWrite" -> "TRANSFER_DST_OPTIMAL"
      [] access = "ShaderRead" -> "SHADER_READ_ONLY_OPTIMAL"
      [] access = "PipelineAttachment" ->
            IF is_depth_format THEN "DEPTH_STENCIL_ATTACHMENT_OPTIMAL"
            ELSE "COLOR_ATTACHMENT_OPTIMAL"
      [] access = "Present" -> "PRESENT_SRC_KHR"

\* The image layouts the emitted command names for its images: cmd_blit_image
\* (command.rs 270-275) and cmd_copy_buffer_to_image (command.rs 385-389).
NamedLayouts(command) ==
    CASE command.kind = "BlitFullImage" ->
            [src |-> "TRANSFER_SRC_OPTIMAL", dst |-> "TRANSFER_DST_OPTIMAL"]
      [] command.kind = "CopyBufferToImageComplete" ->
            [src |-> "TRANSFER_DST_OPTIMAL", dst |-> "none"]
      [] OTHER -> [src |-> "none", dst |-> "none"]

\* The barrier, if any, the emission pass emits for one image before the
\* command at command_idx (command.rs 234-264).
BarrierFor(entry, command_idx) ==
    LET transitions_needed == entry.transitions
        access_idx == Position(transitions_needed, LookedUpAt(command_idx))
    IN IF access_idx = -1 THEN <<>>
       ELSE IF access_idx = 0 THEN <<>>
       ELSE LET access_new == transitions_needed[access_idx + 1][2]
                access_old == transitions_needed[access_idx][2]
            IN IF access_old = access_new THEN <<>>
               ELSE <<PipelineBarrier(entry.image, access_old, access_new)>>

\* The loop over image_accesses.iter() before one command; order is the
\* iteration order of the HashMap.
RECURSIVE BarriersBefore(_, _, _, _)
BarriersBefore(image_accesses, order, o, command_idx) ==
    IF o > Len(order) THEN <<>>
    ELSE BarrierFor(image_accesses[order[o]], command_idx)
         \o BarriersBefore(image_accesses, order, o + 1, command_idx)

\* The emission pass (command.rs 232-400).
RECURSIVE EmitFrom(_, _, _, _)
EmitFrom(image_accesses, order, cmds, command_idx) ==
    IF command_idx >= Len(cmds) THEN <<>>
    ELSE BarriersBefore(image_accesses, order, 1, command_idx)
         \o <<Emitted(cmds[command_idx + 1], command_idx)>>
         \o EmitFrom(image_accesses, order, cmds, command_idx + 1)

\* The iteration orders a HashMap with the given keys can have.
IterationOrders(keys) ==
    {order \in [1..Cardinality(keys) -> keys] : \A k \in keys : \E i \in DOMAIN order : order[i] = k}

\* The body of record between begin and end.
RecordStream(cmds, order) == EmitFrom(Discover(cmds), order, cmds, 0)

\* ------------------------------------------------------------------
\* Part 2: the frame loop (Canvas::paint), Sheets and the device
\* ------------------------------------------------------------------
NumFrames == 2       \* sheets.swapchain_images.len(), the number of frame slots
MaxStale == 1        \* stale or suboptimal answers the device gives to acquire
MaxPending == 2      \* signal operations that can be outstanding on the acquire fence
MaxPresents == 2     \* present requests the queue has not reached yet

\* The sizes the surface reports at a rebuild (sheets.rs 152-161): it was
\* resized from its first size, 1, and reports the new size from then on, so a
\* first rebuild changes the resolution and a later one finds it unchanged.
Extents == {2}

VARIABLES
    pc,                      \* where the host thread is inside paint
    frame_num,               \* the index acquire_next_image returned
    first_acquire,           \* the device's answer to the first acquire of the call
    acquire_image_cpu_fut,   \* "unsignaled", "pending" (an acquire will signal it), "signaled"
    acquire_signals_pending, \* acquires that were given the fence and have not signaled it yet
    draw_complete_cpu_futs,  \* per slot: "unsignaled" or "signaled"
    refresh_fence,           \* the fence the running refresh_resolution created
    gpu_queue,               \* submissions of the graphics queue, in submission order
    swapchain,               \* Sheets::swapchain
    swapchain_images,        \* the swapchain Sheets::swapchain_images came from
    surface_resolution,      \* Sheets::surface_resolution
    new_swapchain,           \* refresh_resolution's new_swapchain
    new_resolution,          \* refresh_resolution's new_resolution
    swapchains_created,      \* swapchain handles created so far
    destroyed_swapchains,    \* swapchain handles passed to destroy_swapchain
    stale_reports,           \* stale or suboptimal answers given so far
    present_answer,          \* the device's answer to queue_present
    present_return,          \* what present_image returned for it
    paint_result,            \* "none", "running", "Ok", "Err"
    inflight_at_refresh,     \* a draw submission was in flight when the rebuild of this call began
    acquire_call,            \* the running or last acquire_next_image: its arguments, its last acquire, its result
    draw_complete_gpu_futs,  \* per slot: the semaphore is signaled
    present_queue,           \* present requests the queue has not reached yet, oldest first
    on_screen,               \* the last present request the queue reached: "none", "rendered", "unrendered"
    device_lost,             \* the device answered ERROR_DEVICE_LOST
    image_states             \* per image of the PerFrameDatas and of sheets.swapchain_images: the access state the work submitted for it leaves it in

Slots == 0..(NumFrames - 1)

AcquireAnswers == {"SUCCESS", "SUBOPTIMAL_KHR", "ERROR_OUT_OF_DATE_KHR", "ERROR_DEVICE_LOST"}

PresentAnswers ==
    {"SUCCESS", "SUBOPTIMAL_KHR", "ERROR_OUT_OF_DATE_KHR", "ERROR_DEVICE_LOST",
     "ERROR_SURFACE_LOST_KHR"}

\* wait_for_fences(.., true, u64::MAX) (sync.rs 56-64): returns once the
\* fence is signaled.
WaitReturns_Timeout(fence_state) == TRUE

WaitReturns(fence_state) == fence_state = "signaled"

\* The slot whose buffers update_inputs writes (mesh_painter.rs 505).
norm_frame_number_Next(frame_number) == (frame_number + 1) % NumFrames

norm_frame_number(frame_number) == frame_number % NumFrames

\* The slot whose buffers draw_meshes_command binds (mesh_painter.rs 569).
draw_meshes_slot(frame_number) == frame_number % NumFrames

\* The match on queue_present's answer in present_image (sheets.rs 293-309).
present_image_StaleFatal(answer) ==
    IF answer \in {"SUCCESS", "SUBOPTIMAL_KHR"} THEN "Ok" ELSE "Err"

present_image(answer) ==
    IF answer \in {"SUCCESS", "SUBOPTIMAL_KHR"} THEN "Ok"
    ELSE IF answer # "ERROR_OUT_OF_DATE_KHR" THEN "Err"
    ELSE "Ok"

\* A submission: the command buffer (a slot, or -1 for the upload command
\* buffer), the fence to signal (a slot's draw-complete fence, or -n for the
\* fence refresh_resolution created while building swapchain n), the slot whose vertex,
\* index and scene buffers it reads (-1 for none), the swapchain whose images
\* it names, and whether the device has finished executing it.
Submission(cb, fence, buffers, sc, signals) ==
    [cb |-> cb, fence |-> fence, buffers |-> buffers, swapchain |-> sc,
     signals |-> signals, done |-> FALSE]

\* The semaphores paint's submit signals: the slot's draw_complete_gpu_fut
\* (lib.rs 190-192).
SubmitSignals(frame_number) == {frame_number}

\* The semaphores paint's present waits on: the slot's draw_complete_gpu_fut
\* (lib.rs 199-200, sheets.rs 289-298).
PresentWaits_Nothing(frame_number) == {}

PresentWaits(frame_number) == {frame_number}

\* A present request: the swapchain and the image, the semaphores it waits
\* on, and whether the frame's submission has finished executing.
PresentRequest(sc, image, waits, rendered) ==
    [swapchain |-> sc, image |-> image, waits |-> waits, rendered |-> rendered]

InFlight(j) == ~gpu_queue[j].done

\* ------------------------------------------------------------------
\* Part 3: one CpuFuture and the calls of sync.rs on it
\* ------------------------------------------------------------------
MaxWaits == 3        \* waits made on the future between two resets

VARIABLES
    cpu_future,              \* the fence: "unsignaled", "pending", "signaled"
    cpu_future_pending,      \* submissions given the fence that have not signaled it yet
    cpu_future_call,         \* the last call on the future: its name, progress and result
    waits_returned           \* waits that returned Ok since the last reset

\* ------------------------------------------------------------------
\* Part 4: resources of the Painter, their drops, and writes to their memory
\* ------------------------------------------------------------------
MaxResources == 2    \* resources the program creates
ChannelCap == 2      \* requests the delete channel holds before try_send finds it full
MaxBytes == 2        \* bytes of an allocation's mapped region

ResourceIds == 1..MaxResources

ResourceKinds == {"Buffer", "Image2d", "CpuFuture", "GpuFuture"}

Bytes == {0, 1}

\* The byte strings write_to_mem is called with: up to one byte longer than
\* a mapped region.
DataStrings == UNION {[1..n -> Bytes] : n \in 0..(MaxBytes + 1)}

\* The contents a mapped region can have.
Regions == [1..MaxBytes -> Bytes]

VARIABLES
    resources,               \* per id: the resource object the program holds
    device_handles,          \* device handles created and not destroyed
    gpu_memory,              \* ids of the resources whose allocation has not been released
    delete_channel,          \* PainterDelete requests sent and not yet received
    gpu_work,                \* ids of the resources that work in flight on the device uses
    write_to_mem_result      \* the last Buffer::write_to_mem: the buffer and what it returned

resourceVars ==
    <<resources, device_handles, gpu_memory, delete_channel, gpu_work, write_to_mem_result>>

\* ------------------------------------------------------------------
\* Part 5: the Allocator (allocator.rs)
\* ------------------------------------------------------------------
MaxNamed == 2        \* buffers, and images, named in one delete_allocations call

\* The images the Allocator is asked for.
AllocatorImages == {1}

\* What delete_allocations can be called with.
NamedBuffers == UNION {[1..n -> ResourceIds] : n \in 0..MaxNamed}

NamedImages == UNION {[1..n -> AllocatorImages] : n \in 0..MaxNamed}

VARIABLES
    allocator_buffers,       \* vk::Buffer handles create_buffer created
    allocator_images,        \* vk::Image handles create_image_2d created
    buffer_allocations,      \* Allocator::buffer_allocations: per buffer, its allocation or None
    image_allocations,       \* Allocator::image_allocations: per image, its allocation or None
    allocator_memory,        \* allocations made and not freed, by the resource they were made for
    free_calls,              \* per resource: calls of allocator.free with its allocation
    delete_call,             \* the last delete_allocations: what it named and what it returned
    write_call,              \* the last write_to_buffer_mem: its arguments, the map before, the result
    allocator_drop           \* whether the Allocator was dropped, and what it tracked then

allocatorVars ==
    <<allocator_buffers, allocator_images, buffer_allocations, image_allocations,
      allocator_memory, free_calls, delete_call, write_call, allocator_drop>>

\* ------------------------------------------------------------------
\* Part 6: teardown of the Canvas, the Painter and the device
\* ------------------------------------------------------------------
\* The fields of Canvas that hold objects of the device, in the order of
\* their declaration (lib.rs 47-58), which is the order in which they drop.
CanvasFields ==
    <<"painter", "sheets", "mesh_painter", "command_pool", "command_buffers",
      "draw_complete_gpu_futs", "draw_complete_cpu_futs", "upload_command_buffer",
      "acquire_image_cpu_fut">>

CanvasFieldNames == {CanvasFields[i] : i \in DOMAIN CanvasFields}

\* teardown holds, for the Canvas being dropped:
\*   canvas_fields         per field of Canvas, "held" or "dropped"
\*   painter_strong_count  strong references to the Arc<Painter>
\*   device_destroyed      Painter::drop has called destroy_device
\*   handles               handles created from the device and not destroyed
\*   channel               PainterDelete requests sent and not received
VARIABLES teardown

teardownVars == <<teardown>>

\* ------------------------------------------------------------------
\* Part 7: MeshPainter::update_inputs and draw_meshes_command
\* ------------------------------------------------------------------
MaxVerts == 2        \* vertices of a mesh
MaxIndices == 1      \* indices of a mesh
MaxDrawables == 2    \* drawables passed to update_inputs

\* The keys add_mesh and add_texture returned, and one key of each kind that
\* the maps do not hold.
MeshIDs == {"mesh_a", "mesh_b"}

UnknownMeshID == "mesh_removed"

TextureIDs == {"texture_a"}

UnknownTextureID == "texture_removed"

\* struct Mesh (mesh_painter.rs 221-224): a vertex is named by the mesh it
\* comes from and its position there; an index is a position in vertices,
\* counted from 0.
Meshes ==
    UNION {[vertices : {[k \in 1..n |-> k]},
            indices : UNION {[1..len -> 0..(n - 1)] : len \in 0..MaxIndices}] :
           n \in 1..MaxVerts}

\* struct DrawableMeshAndTexture (mesh_painter.rs 164-167).
Drawables ==
    [mesh_name : MeshIDs \cup {UnknownMeshID},
     texture_name : TextureIDs \cup {UnknownTextureID}]

DrawableLists == UNION {[1..n -> Drawables] : n \in 0..MaxDrawables}

\* mesh_painter holds:
\*   meshes          MeshPainter::meshes: per MeshID, the mesh
\*   drawables       the drawables update_inputs is called with
\*   per_frame_data  the slot's vertex and index buffer contents and next_draw_params
\*   render_cmds     the Draw commands draw_meshes_command recorded
VARIABLES mesh_painter

meshVars == <<mesh_painter>>

futureVars == <<cpu_future, cpu_future_pending, cpu_future_call, waits_returned>>

paintVars ==
    <<pc, frame_num, first_acquire, acquire_image_cpu_fut, acquire_signals_pending,
      draw_complete_cpu_futs,
      refresh_fence, gpu_queue, swapchain, swapchain_images, surface_resolution,
      new_swapchain, new_resolution, swapchains_created, destroyed_swapchains,
      stale_reports, present_answer, present_return, paint_result,
      inflight_at_refresh, acquire_call, draw_complete_gpu_futs, present_queue,
      on_screen, device_lost, image_states>>

recordVars == <<commands, stream, record_result, record_answers>>

vars == <<commands, stream, record_result, record_answers, pc, frame_num, first_acquire,
          acquire_image_cpu_fut, acquire_signals_pending, draw_complete_cpu_futs,
          refresh_fence, gpu_queue,
          swapchain, swapchain_images, surface_resolution, new_swapchain,
          new_resolution, swapchains_created, destroyed_swapchains,
          stale_reports, present_answer, present_return, paint_result,
          inflight_at_refresh, acquire_call, draw_complete_gpu_futs, present_queue,
          on_screen, device_lost, image_states, cpu_future, cpu_future_pending, cpu_future_call,
          waits_returned, resources, device_handles, gpu_memory, delete_channel,
          gpu_work, write_to_mem_result, allocator_buffers, allocator_images,
          buffer_allocations, image_allocations, allocator_memory, free_calls,
          delete_call, write_call, allocator_drop, teardown, mesh_painter>>

\* Whether a call into the device can succeed: none does once the device is lost.
DeviceCallOk == IF device_lost THEN {FALSE} ELSE BOOLEAN

\* The answers the device can give once it may be lost.
AnswersOf(answers) == IF device_lost THEN {"ERROR_DEVICE_LOST"} ELSE answers

\* A fence that is never created signaled.
CpuFutureNew_Unsignaled(signaled) == "unsignaled"

\* CpuFuture::new(painter, signaled) (sync.rs 23-36): the fence is created with
\* FenceCreateFlags::SIGNALED exactly when signaled is true.
CpuFutureNew(signaled) == IF signaled THEN "signaled" ELSE "unsignaled"

\* The fence after an acquire was given it: the acquire's signal is outstanding.
FenceArmed(fence_state) == IF fence_state = "signaled" THEN "signaled" ELSE "pending"

\* The fence after reset_fences (sync.rs 66-74): unsignaled, with whatever
\* signals are still outstanding on it.
FenceReset(pending) == IF pending > 0 THEN "pending" ELSE "unsignaled"

\* A call of acquire_next_image(semaphore, fence, ..) (sheets.rs 240-245):
\* whether each argument is given, the device's answer to the last acquire
\* the call made, the index and the swapchain of that acquire, and what the
\* call returned.
AcquireCall(semaphore, fence, result) ==
    [semaphore |-> semaphore, fence |-> fence, result |-> result, answer |-> "none",
     image |-> -1, swapchain |-> 0]

NoAcquireCall == AcquireCall(FALSE, FALSE, "none")

\* The check of the arguments (sheets.rs 247-252): with neither a fence nor a
\* semaphore the call returns an error before its loop.
ArgumentsGiven(semaphore, fence) == ~(~fence /\ ~semaphore)

\* The vk::Image handles the canvas owns: each slot's PerFrameData has a
\* colour and a depth image (mesh_painter.rs 88-112), each swapchain has one
\* image per index (sheets.rs 98-125, 190-216).
color_image(slot) == 10 + slot
depth_image(slot) == 20 + slot
swapchain_image(chain, i_id) == 100 * chain + i_id

\* MeshPainter::get_rendered_image (mesh_painter.rs 388-390).
get_rendered_image(frame_number) == color_image(frame_number % NumFrames)

\* The list PerFrameData::new records for its two images (mesh_painter.rs 114-125).
PerFrameInitCommands(slot) ==
    <<ImageAccessInit(color_image(slot), "TransferRead"),
      ImageAccessInit(depth_image(slot), "PipelineAttachment")>>

\* The list Sheets::new and Sheets::refresh_resolution record for the images
\* of the swapchain they created (sheets.rs 126-127, 218-219).
SheetInitCommands(chain) ==
    [i \in 1..NumFrames |-> ImageAccessInit(swapchain_image(chain, i - 1), "Present")]

\* The frame's list without its last hint.
FrameCommands_NoFinalHint(frame_number, chain) ==
    LET mesh_render_image == get_rendered_image(frame_number)
        sheet == swapchain_image(chain, frame_number)
    IN <<ImageAccessHint(mesh_render_image, "TransferRead"),
         ImageAccessHint(mesh_render_image, "PipelineAttachment"),
         RunRenderPass,
         ImageAccessHint(sheet, "Present"),
         BlitFullImage(mesh_render_image, sheet)>>

\* The list paint builds for the acquired index (lib.rs 158-185), chain being
\* the swapchain whose images self.sheets.swapchain_images holds.
FrameCommands(frame_number, chain) ==
    LET mesh_render_image == get_rendered_image(frame_number)
        sheet == swapchain_image(chain, frame_number)
    IN <<ImageAccessHint(mesh_render_image, "TransferRead"),
         ImageAccessHint(mesh_render_image, "PipelineAttachment"),
         RunRenderPass,
         ImageAccessHint(sheet, "Present"),
         BlitFullImage(mesh_render_image, sheet),
         ImageAccessHint(sheet, "Present")>>

\* The streams record can produce for a list: one per iteration order of
\* image_accesses (command.rs 196-262).
RecordedStreams(cmds) ==
    {RecordStream(cmds, order) : order \in IterationOrders(DOMAIN Discover(cmds))}

\* The state of every image once the queue has executed a recorded stream:
\* each cmd_pipeline_barrier leaves its image in the barrier's new state; a
\* render pass whose attachments have equal initial and final layouts
\* (render_pipeline.rs 36-37, 46-47) and a blit leave every image where it was.
RECURSIVE Executed(_, _)
Executed(states, s) ==
    IF s = <<>> THEN states
    ELSE LET e == Head(s)
         IN Executed(IF e.ev = "cmd_pipeline_barrier"
                     THEN [k \in DOMAIN states \cup {e.image} |->
                              IF k = e.image THEN e.new ELSE states[k]]
                     ELSE states,
                     Tail(s))

\* The states after each list of a sequence of lists was recorded, submitted
\* and waited for in turn.
RECURSIVE ExecutedLists(_, _)
ExecutedLists(states, lists) ==
    IF lists = <<>> THEN {states}
    ELSE UNION {ExecutedLists(Executed(states, s), Tail(lists)) :
                    s \in RecordedStreams(Head(lists))}

\* The swapchain handles a run can create: the first and one per rebuild.
Swapchains == 1..(1 + MaxStale)

\* The streams record can produce for the frame's list of each acquired index
\* on each swapchain (lib.rs 186-188), and for the list of a rebuild
\* (sheets.rs 219).
FrameStreams ==
    [frame_number \in Slots, chain \in Swapchains |->
        RecordedStreams(FrameCommands(frame_number, chain))]

SheetInitStreams == [chain \in Swapchains |-> RecordedStreams(SheetInitCommands(chain))]

\* What executing a stream does to the images it has barriers for, and the
\* images after it: every other image stays where it was.
Effect(s) == Executed([k \in {} |-> "None"], s)

Applied(states, effect) ==
    [k \in DOMAIN states \cup DOMAIN effect |->
        IF k \in DOMAIN effect THEN effect[k] ELSE states[k]]

FrameEffects ==
    [frame_number \in Slots, chain \in Swapchains |->
        {Effect(s) : s \in FrameStreams[frame_number, chain]}]

SheetInitEffects == [chain \in Swapchains |-> {Effect(s) : s \in SheetInitStreams[chain]}]

\* The images that remain when refresh_resolution assigns self.swapchain_images
\* (sheets.rs 231): the Image2d of the swapchain held until then are dropped.
ImagesKept(states, chain) ==
    [k \in DOMAIN states \ {swapchain_image(chain, i_id) : i_id \in Slots} |-> states[k]]

\* The images Canvas::new leaves behind (lib.rs 62-99): Sheets::new runs its
\* list for the first swapchain, then every PerFrameData::new runs its own.
InitialImageStates ==
    ExecutedLists([k \in {} |-> "None"],
                  <<SheetInitCommands(1)>> \o [i \in 1..NumFrames |-> PerFrameInitCommands(i - 1)])

\* paint returns: its locals and those of the calls it made go away.
Return(result) ==
    /\ pc' = "idle"
    /\ paint_result' = result
    /\ frame_num' = 0
    /\ first_acquire' = "none"
    /\ inflight_at_refresh' = FALSE
    /\ acquire_call' = NoAcquireCall

\* refresh_resolution returns: its locals go away.
RefreshLocalsGone ==
    /\ new_swapchain' = 0
    /\ new_resolution' = 0
    /\ refresh_fence' = "unsignaled"

\* Canvas::paint is entered (lib.rs 122) and calls acquire_next_image with
\* its fence and no semaphore (lib.rs 124-127).
PaintBegin ==
    /\ pc = "idle"
    /\ Len(present_queue) < MaxPresents
    /\ ArgumentsGiven(FALSE, TRUE)
    /\ acquire_call' = AcquireCall(FALSE, TRUE, "running")
    /\ pc' = "acquire"
    /\ paint_result' = "running"
    /\ present_answer' = "none"
    /\ present_return' = "none"
    /\ UNCHANGED <<frame_num, first_acquire, acquire_image_cpu_fut,
                   acquire_signals_pending, draw_complete_cpu_futs, refresh_fence,
                   gpu_queue, swapchain, swapchain_images, surface_resolution,
                   new_swapchain, new_resolution, swapchains_created, destroyed_swapchains,
                   stale_reports, inflight_at_refresh, draw_complete_gpu_futs,
                   present_queue, on_screen, device_lost, recordVars, futureVars,
                   resourceVars, allocatorVars, teardownVars, meshVars, image_states>>

\* acquire_next_image is called with neither a fence nor a semaphore: it
\* returns the error of sheets.rs 251 before its loop. The call never reaches
\* the device; it is made between two paint calls while the device is at rest.
AcquireWithoutSync ==
    /\ pc = "idle"
    /\ gpu_queue = <<>>
    /\ present_queue = <<>>
    /\ acquire_signals_pending = 0
    /\ ~ArgumentsGiven(FALSE, FALSE)
    /\ acquire_call' = AcquireCall(FALSE, FALSE, "Err")
    /\ UNCHANGED <<pc, frame_num, first_acquire, acquire_image_cpu_fut,
                   acquire_signals_pending, draw_complete_cpu_futs, refresh_fence,
                   gpu_queue, swapchain, swapchain_images, surface_resolution,
                   new_swapchain, new_resolution, swapchains_created, destroyed_swapchains,
                   stale_reports, present_answer, present_return, paint_result,
                   inflight_at_refresh, draw_complete_gpu_futs, present_queue, on_screen,
                   device_lost, recordVars, futureVars, resourceVars, allocatorVars,
                   teardownVars, meshVars, image_states>>

\* The match on the answer of vkAcquireNextImageKHR in acquire_next_image
\* (sheets.rs 254-265): SUCCESS and SUBOPTIMAL_KHR give an index, and
\* SUBOPTIMAL_KHR and ERROR_OUT_OF_DATE_KHR ask for a refresh; any other
\* answer is returned as an error.
acquire_match_SuboptimalKept(answer, i_id) ==
    CASE answer = "SUCCESS" -> [error |-> FALSE, img_id |-> Some(i_id), refresh_needed |-> FALSE]
      [] answer = "SUBOPTIMAL_KHR" ->
            [error |-> FALSE, img_id |-> Some(i_id), refresh_needed |-> FALSE]
      [] answer = "ERROR_OUT_OF_DATE_KHR" ->
            [error |-> FALSE, img_id |-> Nothing, refresh_needed |-> TRUE]
      [] OTHER -> [error |-> TRUE, img_id |-> Nothing, refresh_needed |-> FALSE]

acquire_match(answer, i_id) ==
    CASE answer = "SUCCESS" -> [error |-> FALSE, img_id |-> Some(i_id), refresh_needed |-> FALSE]
      [] answer = "SUBOPTIMAL_KHR" ->
            [error |-> FALSE, img_id |-> Some(i_id), refresh_needed |-> TRUE]
      [] answer = "ERROR_OUT_OF_DATE_KHR" ->
            [error |-> FALSE, img_id |-> Nothing, refresh_needed |-> TRUE]
      [] OTHER -> [error |-> TRUE, img_id |-> Nothing, refresh_needed |-> FALSE]

\* One pass of the loop of acquire_next_image up to the branch on
\* refresh_needed (sheets.rs 253-278). A failed acquire leaves the fence
\* untouched; SUCCESS and SUBOPTIMAL_KHR leave it with a pending signal, and
\* hand out an image that no queued present request still holds. Without a
\* refresh the call returns Ok with the index just acquired.
AcquireNextImage ==
    /\ pc = "acquire"
    /\ \E answer \in AnswersOf(AcquireAnswers), i_id \in Slots :
        /\ device_lost' = (answer = "ERROR_DEVICE_LOST")
        /\ answer \in {"SUBOPTIMAL_KHR", "ERROR_OUT_OF_DATE_KHR"} => stale_reports < MaxStale
        /\ stale_reports' = IF answer \in {"SUBOPTIMAL_KHR", "ERROR_OUT_OF_DATE_KHR"}
                            THEN stale_reports + 1 ELSE stale_reports
        /\ IF answer \in {"SUCCESS", "SUBOPTIMAL_KHR"}
           THEN /\ acquire_signals_pending < MaxPending
                /\ \A p \in DOMAIN present_queue :
                        \/ present_queue[p].image # i_id
                        \/ present_queue[p].swapchain # swapchain
                /\ acquire_image_cpu_fut' = FenceArmed(acquire_image_cpu_fut)
                /\ acquire_signals_pending' = acquire_signals_pending + 1
           ELSE UNCHANGED <<acquire_image_cpu_fut, acquire_signals_pending>>
        /\ LET matched == acquire_match(answer, i_id)
               acquired == [acquire_call EXCEPT
                                !.answer = answer,
                                !.image = IF matched.img_id = Nothing THEN -1
                                          ELSE matched.img_id[1],
                                !.swapchain = swapchain]
           IN CASE matched.error -> Return("Err")
                [] ~matched.error /\ matched.refresh_needed ->
                    /\ pc' = "refresh"
                    /\ first_acquire' = IF first_acquire = "none" THEN answer
                                        ELSE first_acquire
                    /\ acquire_call' = acquired
                    /\ UNCHANGED <<frame_num, paint_result, inflight_at_refresh>>
                [] OTHER ->
                    /\ frame_num' = matched.img_id[1]
                    /\ pc' = "wait_acquire"
                    /\ first_acquire' = "none"
                    /\ inflight_at_refresh' = FALSE
                    /\ acquire_call' = [acquired EXCEPT !.result = "Ok"]
                    /\ UNCHANGED paint_result
    /\ UNCHANGED <<draw_complete_cpu_futs, refresh_fence, gpu_queue, swapchain,
                   swapchain_images, surface_resolution, new_swapchain, new_resolution,
                   swapchains_created, destroyed_swapchains, present_answer,
                   present_return, draw_complete_gpu_futs, present_queue, on_screen,
                   recordVars, futureVars, resourceVars, allocatorVars, teardownVars, meshVars, image_states>>

\* refresh_resolution up to the submit of the layout-initialising command
\* buffer (sheets.rs 150-224). A failure before create_swapchain leaves
\* nothing behind; a later one leaves the new swapchain created.
RefreshSubmit ==
    /\ pc = "refresh"
    /\ \E outcome \in {"ok", "fail_before_create", "fail_after_create"} :
        /\ device_lost => outcome = "fail_before_create"
        /\ swapchains_created' = IF outcome = "fail_before_create" THEN swapchains_created
                                 ELSE swapchains_created + 1
        /\ IF outcome = "ok"
           THEN /\ \E extent \in Extents : new_resolution' = extent
                /\ new_swapchain' = swapchains_created + 1
                /\ gpu_queue' = Append(gpu_queue,
                        Submission(-1, -(swapchains_created + 1), -1, swapchains_created + 1, {}))
                /\ refresh_fence' = "unsignaled"
                /\ inflight_at_refresh' =
                        \E j \in DOMAIN gpu_queue : gpu_queue[j].cb >= 0 /\ InFlight(j)
                /\ pc' = "refresh_wait"
                /\ UNCHANGED <<paint_result, frame_num, first_acquire, acquire_call>>
           ELSE /\ Return("Err")
                /\ RefreshLocalsGone
                /\ UNCHANGED gpu_queue
    /\ UNCHANGED <<acquire_image_cpu_fut, acquire_signals_pending, draw_complete_cpu_futs,
                   swapchain, swapchain_images, surface_resolution, destroyed_swapchains,
                   stale_reports, present_answer, present_return, draw_complete_gpu_futs,
                   present_queue, on_screen, device_lost, recordVars, futureVars,
                   resourceVars, allocatorVars, teardownVars, meshVars, image_states>>

\* The fields of Sheets that refresh_resolution replaces.
SheetsFields(sc, images, resolution) ==
    [swapchain |-> sc, swapchain_images |-> images, surface_resolution |-> resolution]

\* What the end of refresh_resolution leaves in Sheets (sheets.rs 225-236):
\* the fields are assigned after the last call that can return an error, so
\* an error leaves them as they were.
SheetsAfterRefresh_EarlyAssign(ok, sheets, new_sc, new_res) ==
    IF ok THEN SheetsFields(new_sc, new_sc, new_res)
    ELSE SheetsFields(new_sc, sheets.swapchain_images, sheets.surface_resolution)

SheetsAfterRefresh(ok, sheets, new_sc, new_res) ==
    IF ok THEN SheetsFields(new_sc, new_sc, new_res) ELSE sheets

\* The rest of refresh_resolution (sheets.rs 225-236): wait for the fence of
\* the submit, reset the command buffer, then replace the swapchain and its
\* images, destroy the old swapchain and take the new resolution.
RefreshWaitAndSwap ==
    /\ pc = "refresh_wait"
    /\ RefreshLocalsGone
    /\ \E ok \in DeviceCallOk :
        LET after == SheetsAfterRefresh(ok, SheetsFields(swapchain, swapchain_images,
                                                        surface_resolution),
                                        new_swapchain, new_resolution)
        IN /\ swapchain' = after.swapchain
           /\ swapchain_images' = after.swapchain_images
           /\ surface_resolution' = after.surface_resolution
           /\ IF ok
              THEN /\ WaitReturns(refresh_fence)
                   /\ destroyed_swapchains' = destroyed_swapchains \cup {swapchain}
                   /\ \E effect \in SheetInitEffects[new_swapchain] :
                        image_states' =
                            Applied(ImagesKept(image_states, swapchain_images), effect)
                   /\ pc' = "refresh_fence_wait"
                   /\ UNCHANGED <<paint_result, frame_num, first_acquire,
                                  inflight_at_refresh, acquire_call>>
              ELSE /\ Return("Err")
                   /\ UNCHANGED <<destroyed_swapchains, image_states>>
    /\ UNCHANGED <<acquire_image_cpu_fut, acquire_signals_pending, draw_complete_cpu_futs,
                   gpu_queue, swapchains_created, stale_reports, present_answer,
                   present_return, draw_complete_gpu_futs, present_queue, on_screen,
                   device_lost, recordVars, futureVars, resourceVars, allocatorVars, teardownVars, meshVars>>

\* After refresh_resolution returned Ok: wait on the caller's fence, reset it
\* and go round the loop again (sheets.rs 269-274).
AcquireFenceWait ==
    /\ pc = "refresh_fence_wait"
    /\ \E ok \in DeviceCallOk :
        IF ok
        THEN /\ WaitReturns(acquire_image_cpu_fut)
             /\ acquire_image_cpu_fut' = FenceReset(acquire_signals_pending)
             /\ pc' = "acquire"
             /\ UNCHANGED <<paint_result, frame_num, first_acquire, inflight_at_refresh, acquire_call>>
        ELSE /\ Return("Err")
             /\ UNCHANGED acquire_image_cpu_fut
    /\ UNCHANGED <<acquire_signals_pending, draw_complete_cpu_futs, refresh_fence,
                   gpu_queue, swapchain, swapchain_images, surface_resolution,
                   new_swapchain, new_resolution, swapchains_created, destroyed_swapchains,
                   stale_reports, present_answer, present_return, draw_complete_gpu_futs,
                   present_queue, on_screen, device_lost, recordVars, futureVars,
                   resourceVars, allocatorVars, teardownVars, meshVars, image_states>>

\* paint waits on acquire_image_cpu_fut and resets it (lib.rs 128-133).
PaintWaitAcquire ==
    /\ pc = "wait_acquire"
    /\ \E ok \in DeviceCallOk :
        IF ok
        THEN /\ WaitReturns(acquire_image_cpu_fut)
             /\ acquire_image_cpu_fut' = FenceReset(acquire_signals_pending)
             /\ pc' = "wait_draw"
             /\ UNCHANGED <<paint_result, frame_num, first_acquire, inflight_at_refresh, acquire_call>>
        ELSE /\ Return("Err")
             /\ UNCHANGED acquire_image_cpu_fut
    /\ UNCHANGED <<acquire_signals_pending, draw_complete_cpu_futs, refresh_fence,
                   gpu_queue, swapchain, swapchain_images, surface_resolution,
                   new_swapchain, new_resolution, swapchains_created, destroyed_swapchains,
                   stale_reports, present_answer, present_return, draw_complete_gpu_futs,
                   present_queue, on_screen, device_lost, recordVars, futureVars,
                   resourceVars, allocatorVars, teardownVars, meshVars, image_states>>

\* paint waits on the slot's draw-complete CpuFuture and resets it
\* (lib.rs 135-143).
PaintWaitDrawComplete ==
    /\ pc = "wait_draw"
    /\ \E ok \in DeviceCallOk :
        IF ok
        THEN /\ WaitReturns(draw_complete_cpu_futs[frame_num])
             /\ draw_complete_cpu_futs' =
                    [draw_complete_cpu_futs EXCEPT ![frame_num] = "unsignaled"]
             /\ pc' = "update_inputs"
             /\ UNCHANGED <<paint_result, frame_num, first_acquire, inflight_at_refresh, acquire_call>>
        ELSE /\ Return("Err")
             /\ UNCHANGED draw_complete_cpu_futs
    /\ UNCHANGED <<acquire_image_cpu_fut, acquire_signals_pending, refresh_fence,
                   gpu_queue, swapchain, swapchain_images, surface_resolution,
                   new_swapchain, new_resolution, swapchains_created, destroyed_swapchains,
                   stale_reports, present_answer, present_return, draw_complete_gpu_futs,
                   present_queue, on_screen, device_lost, recordVars, futureVars,
                   resourceVars, allocatorVars, teardownVars, meshVars, image_states>>

\* paint resets the slot's command buffer and update_inputs writes the slot's
\* scene, vertex and index buffers (lib.rs 150-156, mesh_painter.rs 505-523).
PaintUpdateInputs ==
    /\ pc = "update_inputs"
    /\ \E ok \in DeviceCallOk :
        IF ok
        THEN /\ pc' = "record"
             /\ UNCHANGED <<paint_result, frame_num, first_acquire, inflight_at_refresh, acquire_call>>
        ELSE Return("Err")
    /\ UNCHANGED <<acquire_image_cpu_fut, acquire_signals_pending, draw_complete_cpu_futs,
                   refresh_fence, gpu_queue, swapchain, swapchain_images,
                   surface_resolution, new_swapchain, new_resolution, swapchains_created,
                   destroyed_swapchains, stale_reports, present_answer, present_return,
                   draw_complete_gpu_futs, present_queue, on_screen, device_lost,
                   recordVars, futureVars, resourceVars, allocatorVars, teardownVars, meshVars, image_states>>

\* paint builds the frame's command list and records it into the slot's
\* command buffer (lib.rs 158-188).
PaintRecord ==
    /\ pc = "record"
    /\ \E ok \in DeviceCallOk :
        IF ok
        THEN /\ pc' = "submit"
             /\ UNCHANGED <<paint_result, frame_num, first_acquire, inflight_at_refresh, acquire_call>>
        ELSE Return("Err")
    /\ UNCHANGED <<acquire_image_cpu_fut, acquire_signals_pending, draw_complete_cpu_futs,
                   refresh_fence, gpu_queue, swapchain, swapchain_images,
                   surface_resolution, new_swapchain, new_resolution, swapchains_created,
                   destroyed_swapchains, stale_reports, present_answer, present_return,
                   draw_complete_gpu_futs, present_queue, on_screen, device_lost,
                   recordVars, futureVars, resourceVars, allocatorVars, teardownVars, meshVars, image_states>>

\* paint submits the slot's command buffer with the slot's draw-complete
\* futures (lib.rs 190-197).
PaintSubmit ==
    /\ pc = "submit"
    /\ \E ok \in DeviceCallOk :
        IF ok
        THEN /\ gpu_queue' = Append(gpu_queue,
                    Submission(frame_num, frame_num, draw_meshes_slot(frame_num),
                               swapchain_images, SubmitSignals(frame_num)))
             /\ \E effect \in FrameEffects[frame_num, swapchain_images] :
                    image_states' = Applied(image_states, effect)
             /\ pc' = "present"
             /\ UNCHANGED <<paint_result, frame_num, first_acquire, inflight_at_refresh, acquire_call>>
        ELSE /\ Return("Err")
             /\ UNCHANGED <<gpu_queue, image_states>>
    /\ UNCHANGED <<acquire_image_cpu_fut, acquire_signals_pending, draw_complete_cpu_futs,
                   refresh_fence, swapchain, swapchain_images, surface_resolution,
                   new_swapchain, new_resolution, swapchains_created, destroyed_swapchains,
                   stale_reports, present_answer, present_return, draw_complete_gpu_futs,
                   present_queue, on_screen, device_lost, recordVars, futureVars,
                   resourceVars, allocatorVars, teardownVars, meshVars>>

\* paint presents the image and returns what present_image returns
\* (lib.rs 199-202, sheets.rs 283-311).
PaintPresent ==
    /\ pc = "present"
    /\ \E answer \in AnswersOf(PresentAnswers) :
        /\ present_answer' = answer
        /\ present_return' = present_image(answer)
        /\ device_lost' = (answer = "ERROR_DEVICE_LOST")
        /\ present_queue' =
                IF answer = "ERROR_DEVICE_LOST" THEN present_queue
                ELSE Append(present_queue,
                        PresentRequest(swapchain, frame_num, PresentWaits(frame_num),
                            ~\E j \in DOMAIN gpu_queue : gpu_queue[j].cb = frame_num /\ InFlight(j)))
        /\ Return(present_image(answer))
    /\ UNCHANGED <<acquire_image_cpu_fut, acquire_signals_pending, draw_complete_cpu_futs,
                   refresh_fence, gpu_queue, swapchain, swapchain_images,
                   surface_resolution, new_swapchain, new_resolution, swapchains_created,
                   destroyed_swapchains, stale_reports, draw_complete_gpu_futs, on_screen,
                   recordVars, futureVars, resourceVars, allocatorVars, teardownVars, meshVars, image_states>>

\* The submissions at the head of the queue that have finished: a fence given
\* to queue_submit is signaled when its submission and every earlier one of
\* the queue have completed.
RECURSIVE DonePrefix(_, _)
DonePrefix(queue, n) ==
    IF n < Len(queue) /\ queue[n + 1].done THEN DonePrefix(queue, n + 1) ELSE n

\* The device finishes executing submission j.
GpuComplete(j) ==
    /\ j \in DOMAIN gpu_queue
    /\ InFlight(j)
    /\ LET queue == [gpu_queue EXCEPT ![j].done = TRUE]
           n == DonePrefix(queue, 0)
           signaled == {queue[k].fence : k \in 1..n}
       IN /\ gpu_queue' = SubSeq(queue, n + 1, Len(queue))
          /\ draw_complete_cpu_futs' =
                [k \in Slots |-> IF k \in signaled THEN "signaled"
                                 ELSE draw_complete_cpu_futs[k]]
          /\ refresh_fence' = IF new_swapchain > 0 /\ -new_swapchain \in signaled
                              THEN "signaled" ELSE refresh_fence
          /\ draw_complete_gpu_futs' =
                [k \in Slots |-> \/ draw_complete_gpu_futs[k]
                                 \/ \E m \in 1..n : k \in queue[m].signals]
          /\ present_queue' =
                [p \in DOMAIN present_queue |->
                    IF /\ present_queue[p].image = queue[j].cb
                       /\ present_queue[p].swapchain = queue[j].swapchain
                    THEN [present_queue[p] EXCEPT !.rendered = TRUE]
                    ELSE present_queue[p]]
    /\ UNCHANGED <<pc, frame_num, first_acquire, acquire_image_cpu_fut,
                   acquire_signals_pending, swapchain, swapchain_images,
                   surface_resolution, new_swapchain, new_resolution, swapchains_created,
                   destroyed_swapchains, stale_reports, present_answer, present_return,
                   paint_result, inflight_at_refresh, acquire_call, on_screen, device_lost, recordVars,
                   futureVars, resourceVars, allocatorVars, teardownVars, meshVars, image_states>>

\* The presentation engine hands over the acquired image: the fence given to
\* a successful acquire is signaled.
AcquireSignal ==
    /\ acquire_signals_pending > 0
    /\ acquire_signals_pending' = acquire_signals_pending - 1
    /\ acquire_image_cpu_fut' = "signaled"
    /\ UNCHANGED <<pc, frame_num, first_acquire, draw_complete_cpu_futs, refresh_fence,
                   gpu_queue, swapchain, swapchain_images, surface_resolution,
                   new_swapchain, new_resolution, swapchains_created, destroyed_swapchains,
                   stale_reports, present_answer, present_return, paint_result,
                   inflight_at_refresh, acquire_call, draw_complete_gpu_futs, present_queue, on_screen,
                   device_lost, recordVars, futureVars, resourceVars, allocatorVars, teardownVars, meshVars, image_states>>

\* The queue reaches the oldest present request: its semaphore waits are
\* satisfied and consumed.
PresentBegins ==
    /\ present_queue # <<>>
    /\ LET request == Head(present_queue)
       IN /\ \A s \in request.waits : draw_complete_gpu_futs[s]
          /\ draw_complete_gpu_futs' =
                [k \in Slots |-> draw_complete_gpu_futs[k] /\ k \notin request.waits]
          /\ on_screen' = IF request.rendered THEN "rendered" ELSE "unrendered"
          /\ present_queue' = Tail(present_queue)
    /\ UNCHANGED <<pc, frame_num, first_acquire, acquire_image_cpu_fut,
                   acquire_signals_pending, draw_complete_cpu_futs, refresh_fence,
                   gpu_queue, swapchain, swapchain_images, surface_resolution,
                   new_swapchain, new_resolution, swapchains_created, destroyed_swapchains,
                   stale_reports, present_answer, present_return, paint_result,
                   inflight_at_refresh, acquire_call, device_lost, recordVars, futureVars, resourceVars,
                   allocatorVars, teardownVars, meshVars, image_states>>

\* What record returns (command.rs 197-200, 402-407): the error of
\* begin_command_buffer, else the error of end_command_buffer, else Ok.
record_returns_BeginOnly(begin_ok, end_ok) ==
    IF ~begin_ok THEN "err_begin" ELSE "ok"

record_returns(begin_ok, end_ok) ==
    IF ~begin_ok THEN "err_begin" ELSE IF end_ok THEN "ok" ELSE "err_end"

\* The device's answers to the two calls; end_command_buffer is not called
\* when begin_command_buffer failed.
Answers(begin_ok, end_ok) ==
    [begin |-> IF begin_ok THEN "SUCCESS" ELSE "ERROR",
     end |-> IF ~begin_ok THEN "none" ELSE IF end_ok THEN "SUCCESS" ELSE "ERROR"]

NoAnswers == [begin |-> "none", end |-> "none"]

\* CommandBuffer::record (command.rs 189-408). begin_ok and end_ok are the
\* device's answers to begin_command_buffer and end_command_buffer.
Record ==
    /\ record_result = "none"
    /\ \E begin_ok \in BOOLEAN, end_ok \in BOOLEAN :
        \E order \in IterationOrders(DOMAIN Discover(commands)) :
            /\ record_answers' = Answers(begin_ok, end_ok)
            /\ record_result' = record_returns(begin_ok, end_ok)
            /\ stream' = IF begin_ok THEN RecordStream(commands, order) ELSE <<>>
    /\ UNCHANGED <<commands, paintVars, futureVars, resourceVars, allocatorVars, teardownVars, meshVars>>

\* What wait_for_fences and reset_fences can answer.
FenceAnswers == {"SUCCESS", "ERROR_DEVICE_LOST", "ERROR_OUT_OF_HOST_MEMORY"}

Ok == [ok |-> TRUE, error |-> "none", code |-> "SUCCESS"]

Err(error, code) == [ok |-> FALSE, error |-> error, code |-> code]

\* Painter::cpu_future_wait (sync.rs 56-64): the device's answer, an error
\* wrapped by map_err.
cpu_future_wait(answer) ==
    IF answer = "SUCCESS" THEN Ok ELSE Err("CreateError", answer)

\* Painter::cpu_future_reset (sync.rs 66-74).
cpu_future_reset(answer) ==
    IF answer = "SUCCESS" THEN Ok ELSE Err("ResetError", answer)

\* Painter::wait_and_reset (sync.rs 76-80): the first error, or Ok.
wait_and_reset(wait_answer, reset_answer) ==
    IF ~cpu_future_wait(wait_answer).ok THEN cpu_future_wait(wait_answer)
    ELSE IF ~cpu_future_reset(reset_answer).ok THEN cpu_future_reset(reset_answer)
    ELSE Ok

\* The fence after wait_for_fences returned: cpu_future_wait makes no other
\* device call, the fence is as it was.
FenceAfterWait_Consumed(fence_state, pending) == FenceReset(pending)

FenceAfterWait(fence_state, pending) == fence_state

Call(op, progress, result) == [op |-> op, progress |-> progress, result |-> result]

\* The host calls cpu_future_wait or wait_and_reset; the call returns in a
\* later step, once the device lets the wait return.
CpuFutureCall ==
    /\ cpu_future_call.progress # "running"
    /\ waits_returned < MaxWaits
    /\ \E op \in {"cpu_future_wait", "wait_and_reset"} :
        cpu_future_call' = Call(op, "running", Ok)
    /\ UNCHANGED <<cpu_future, cpu_future_pending, waits_returned, recordVars, paintVars, resourceVars,
                   allocatorVars, teardownVars, meshVars>>

\* cpu_future_wait returns (sync.rs 56-64).
CpuFutureWaitReturns ==
    /\ cpu_future_call.progress = "running"
    /\ cpu_future_call.op = "cpu_future_wait"
    /\ \E answer \in FenceAnswers :
        /\ answer = "SUCCESS" => WaitReturns(cpu_future)
        /\ cpu_future_call' = Call("cpu_future_wait", "returned", cpu_future_wait(answer))
        /\ IF answer = "SUCCESS"
           THEN /\ cpu_future' = FenceAfterWait(cpu_future, cpu_future_pending)
                /\ waits_returned' = waits_returned + 1
           ELSE UNCHANGED <<cpu_future, waits_returned>>
    /\ UNCHANGED <<cpu_future_pending, recordVars, paintVars, resourceVars,
                   allocatorVars, teardownVars, meshVars>>

\* wait_and_reset returns (sync.rs 76-80): the reset is made only when the
\* wait returned Ok.
WaitAndResetReturns ==
    /\ cpu_future_call.progress = "running"
    /\ cpu_future_call.op = "wait_and_reset"
    /\ \E wait_answer \in FenceAnswers, reset_answer \in FenceAnswers :
        /\ wait_answer = "SUCCESS" => WaitReturns(cpu_future)
        /\ cpu_future_call' =
                Call("wait_and_reset", "returned", wait_and_reset(wait_answer, reset_answer))
        /\ IF wait_and_reset(wait_answer, reset_answer).ok
           THEN /\ cpu_future' = FenceReset(cpu_future_pending)
                /\ waits_returned' = 0
           ELSE /\ cpu_future' = cpu_future
                /\ waits_returned' =
                        IF wait_answer = "SUCCESS" THEN waits_returned + 1
                        ELSE waits_returned
    /\ UNCHANGED <<cpu_future_pending, recordVars, paintVars, resourceVars,
                   allocatorVars, teardownVars, meshVars>>

\* cpu_future_reset (sync.rs 66-74): reset_fences does not block.
CpuFutureReset ==
    /\ cpu_future_call.progress # "running"
    /\ \E answer \in FenceAnswers :
        /\ cpu_future_call' = Call("cpu_future_reset", "returned", cpu_future_reset(answer))
        /\ IF answer = "SUCCESS"
           THEN /\ cpu_future' = FenceReset(cpu_future_pending)
                /\ waits_returned' = 0
           ELSE UNCHANGED <<cpu_future, waits_returned>>
    /\ UNCHANGED <<cpu_future_pending, recordVars, paintVars, resourceVars,
                   allocatorVars, teardownVars, meshVars>>

\* The future is given to a submit or an acquire (command.rs 126, sheets.rs 252).
CpuFutureGiven ==
    /\ cpu_future_pending < MaxPending
    /\ cpu_future_pending' = cpu_future_pending + 1
    /\ cpu_future' = FenceArmed(cpu_future)
    /\ UNCHANGED <<cpu_future_call, waits_returned, recordVars, paintVars, resourceVars,
                   allocatorVars, teardownVars, meshVars>>

\* The device signals the fence.
CpuFutureSignaled ==
    /\ cpu_future_pending > 0
    /\ cpu_future_pending' = cpu_future_pending - 1
    /\ cpu_future' = "signaled"
    /\ UNCHANGED <<cpu_future_call, waits_returned, recordVars, paintVars, resourceVars,
                   allocatorVars, teardownVars, meshVars>>

\* A memory allocation: whether its memory is host-mappable, and the bytes of
\* its mapped region.
Allocation(host_visible, bytes) == [host_visible |-> host_visible, bytes |-> bytes]

\* The mapped region of an allocation just made.
FreshRegion == [i \in 1..MaxBytes |-> 0]

\* mapped_slice_mut (buffer.rs 38, allocator.rs 76): the mapped region, or
\* None for memory that is not host-mappable.
mapped_slice_mut(allocation) ==
    IF allocation.host_visible THEN Some(allocation.bytes) ELSE Nothing

\* mapped[..data.len()].copy_from_slice(data) (buffer.rs 40, allocator.rs 78),
\* for data no longer than the region.
copy_from_slice_Fill(mapped, data) ==
    [i \in DOMAIN mapped |-> IF i <= Len(data) THEN data[i] ELSE 0]

copy_from_slice(mapped, data) ==
    [i \in DOMAIN mapped |-> IF i <= Len(data) THEN data[i] ELSE mapped[i]]

\* What a write leaves: the value it returned ("Ok", the error's name, or
\* "panic" when the slice index is out of range) and the allocation after it.
Written(result, bound_mem) == [result |-> result, bound_mem |-> bound_mem]

\* Buffer::write_to_mem (buffer.rs 33-42).
write_to_mem(bound_mem, data) ==
    IF bound_mem = Nothing THEN Written("MemoryNotAllocatedError", bound_mem)
    ELSE IF mapped_slice_mut(bound_mem[1]) = Nothing
         THEN Written("MemoryWriteError", bound_mem)
    ELSE IF Len(data) > Len(bound_mem[1].bytes) THEN Written("panic", bound_mem)
    ELSE Written("Ok", Some(Allocation(bound_mem[1].host_visible,
                                       copy_from_slice(bound_mem[1].bytes, data))))

\* The objects the program holds. state is "none" before the id is used,
\* "failed" when the constructor returned an error, "live", "dropped", or
\* "blocked" for a drop that does not return.
NoResource ==
    [kind |-> "none", state |-> "none", bound_mem |-> Nothing, delete_sender |-> FALSE]

FailedResource(kind) ==
    [kind |-> kind, state |-> "failed", bound_mem |-> Nothing, delete_sender |-> FALSE]

Resource(kind, bound_mem, delete_sender) ==
    [kind |-> kind, state |-> "live", bound_mem |-> bound_mem,
     delete_sender |-> delete_sender]

Handle(kind, id) == [kind |-> kind, id |-> id]

\* The device handles a resource object wraps.
HandlesOf(kind, id) ==
    CASE kind = "Buffer" -> {Handle("Buffer", id)}
      [] kind = "Image2d" -> {Handle("ImageView", id), Handle("Image", id)}
      [] kind = "CpuFuture" -> {Handle("Fence", id)}
      [] kind = "GpuFuture" -> {Handle("Semaphore", id)}
      [] OTHER -> {}

PainterDelete(kind, id) == [delete |-> kind, handle |-> id]

\* Sender::try_send: the request is queued when the channel has room;
\* otherwise the call returns an error at once, which the drops only print.
try_send_Blocking(channel, request) ==
    IF Len(channel) < ChannelCap
    THEN [channel |-> Append(channel, request), blocked |-> FALSE]
    ELSE [channel |-> channel, blocked |-> TRUE]

try_send(channel, request) ==
    IF Len(channel) < ChannelCap
    THEN [channel |-> Append(channel, request), blocked |-> FALSE]
    ELSE [channel |-> channel, blocked |-> FALSE]

\* The bound_mem field of the Buffer that new_buffer returns (buffer.rs 91-96).
new_buffer_bound_mem(allocation) == Nothing

\* The allocation handle held in bound_mem goes away with the object: the
\* memory stays allocated until the allocator releases it.
drop_raw_allocation(memory, bound_mem) == memory

\* Painter::new_buffer (buffer.rs 60-97).
NewBuffer ==
    /\ \E id \in ResourceIds, mem_allocator \in BOOLEAN,
          mem_host_visible \in {Nothing, Some(TRUE), Some(FALSE)},
          outcome \in {"Ok", "CreateError", "MemoryAllocationError", "MemoryBindError"} :
        /\ resources[id].state = "none"
        /\ outcome \in {"MemoryAllocationError", "MemoryBindError"} => mem_allocator
        /\ LET gpu_local == ~(mem_host_visible = Some(TRUE))
               allocation == IF mem_allocator
                             THEN Some(Allocation(~gpu_local, FreshRegion))
                             ELSE Nothing
           IN /\ device_handles' =
                    IF outcome = "CreateError" THEN device_handles
                    ELSE device_handles \cup HandlesOf("Buffer", id)
              /\ gpu_memory' =
                    IF mem_allocator /\ outcome \in {"Ok", "MemoryBindError"}
                    THEN gpu_memory \cup {id} ELSE gpu_memory
              /\ resources' =
                    [resources EXCEPT ![id] =
                        IF outcome = "Ok"
                        THEN Resource("Buffer", new_buffer_bound_mem(allocation), TRUE)
                        ELSE FailedResource("Buffer")]
    /\ UNCHANGED <<delete_channel, gpu_work, write_to_mem_result, recordVars, paintVars,
                   futureVars, allocatorVars, teardownVars, meshVars>>

\* Painter::new_image_2d (image.rs 228-299).
NewImage2d ==
    /\ \E id \in ResourceIds, mem_allocator \in BOOLEAN,
          mem_host_visible \in {Nothing, Some(TRUE), Some(FALSE)},
          outcome \in {"Ok", "CreateError", "ViewCreateError", "MemoryAllocationError",
                       "MemoryBindError"} :
        /\ resources[id].state = "none"
        /\ outcome \in {"MemoryAllocationError", "MemoryBindError"} => mem_allocator
        /\ LET gpu_local == ~(mem_host_visible = Some(TRUE))
               bound_mem == IF mem_allocator
                            THEN Some(Allocation(~gpu_local, FreshRegion))
                            ELSE Nothing
           IN /\ device_handles' =
                    IF outcome = "CreateError" THEN device_handles
                    ELSE IF outcome = "ViewCreateError"
                         THEN device_handles \cup {Handle("Image", id)}
                    ELSE device_handles \cup HandlesOf("Image2d", id)
              /\ gpu_memory' =
                    IF mem_allocator /\ outcome \in {"Ok", "MemoryBindError"}
                    THEN gpu_memory \cup {id} ELSE gpu_memory
              /\ resources' =
                    [resources EXCEPT ![id] =
                        IF outcome = "Ok" THEN Resource("Image2d", bound_mem, TRUE)
                        ELSE FailedResource("Image2d")]
    /\ UNCHANGED <<delete_channel, gpu_work, write_to_mem_result, recordVars, paintVars,
                   futureVars, allocatorVars, teardownVars, meshVars>>

\* An Image2d that holds no delete sender: the image of a swapchain, which
\* Sheets wraps with a view of its own (sheets.rs 107-123).
NewSwapchainImage2d ==
    /\ \E id \in ResourceIds, ok \in BOOLEAN :
        /\ resources[id].state = "none"
        /\ device_handles' =
                IF ok THEN device_handles \cup HandlesOf("Image2d", id)
                ELSE device_handles \cup {Handle("Image", id)}
        /\ resources' =
                [resources EXCEPT ![id] =
                    IF ok THEN Resource("Image2d", Nothing, FALSE)
                    ELSE FailedResource("Image2d")]
    /\ UNCHANGED <<gpu_memory, delete_channel, gpu_work, write_to_mem_result, recordVars,
                   paintVars, futureVars, allocatorVars, teardownVars, meshVars>>

\* CpuFuture::new (sync.rs 23-35).
NewCpuFuture ==
    /\ \E id \in ResourceIds, ok \in BOOLEAN :
        /\ resources[id].state = "none"
        /\ device_handles' =
                IF ok THEN device_handles \cup HandlesOf("CpuFuture", id)
                ELSE device_handles
        /\ resources' =
                [resources EXCEPT ![id] =
                    IF ok THEN Resource("CpuFuture", Nothing, TRUE)
                    ELSE FailedResource("CpuFuture")]
    /\ UNCHANGED <<gpu_memory, delete_channel, gpu_work, write_to_mem_result, recordVars,
                   paintVars, futureVars, allocatorVars, teardownVars, meshVars>>

\* Painter::new_gpu_future (sync.rs 109-117).
NewGpuFuture ==
    /\ \E id \in ResourceIds, ok \in BOOLEAN :
        /\ resources[id].state = "none"
        /\ device_handles' =
                IF ok THEN device_handles \cup HandlesOf("GpuFuture", id)
                ELSE device_handles
        /\ resources' =
                [resources EXCEPT ![id] =
                    IF ok THEN Resource("GpuFuture", Nothing, TRUE)
                    ELSE FailedResource("GpuFuture")]
    /\ UNCHANGED <<gpu_memory, delete_channel, gpu_work, write_to_mem_result, recordVars,
                   paintVars, futureVars, allocatorVars, teardownVars, meshVars>>

\* Work that uses a live resource is submitted to the device.
GpuWorkSubmitted ==
    /\ \E id \in ResourceIds :
        /\ resources[id].state = "live"
        /\ id \notin gpu_work
        /\ gpu_work' = gpu_work \cup {id}
    /\ UNCHANGED <<resources, device_handles, gpu_memory, delete_channel,
                   write_to_mem_result, recordVars, paintVars, futureVars, allocatorVars, teardownVars, meshVars>>

\* The device finishes the work that uses a resource.
GpuWorkCompleted ==
    /\ \E id \in gpu_work : gpu_work' = gpu_work \ {id}
    /\ UNCHANGED <<resources, device_handles, gpu_memory, delete_channel,
                   write_to_mem_result, recordVars, paintVars, futureVars, allocatorVars, teardownVars, meshVars>>

\* The state of an object after its drop ran with these sends.
AfterDrop(sends) ==
    IF \E s \in sends : s.blocked THEN "blocked" ELSE "dropped"

\* Drop for Buffer (buffer.rs 45-57).
DropBuffer ==
    /\ \E id \in ResourceIds :
        /\ resources[id].kind = "Buffer"
        /\ resources[id].state = "live"
        /\ LET sent == try_send(delete_channel, PainterDelete("Buffer", id))
           IN /\ delete_channel' = sent.channel
              /\ resources' = [resources EXCEPT ![id].state = AfterDrop({sent})]
        /\ gpu_memory' = drop_raw_allocation(gpu_memory, resources[id].bound_mem)
    /\ UNCHANGED <<device_handles, gpu_work, write_to_mem_result, recordVars, paintVars,
                   futureVars, allocatorVars, teardownVars, meshVars>>

\* Drop for Image2d (image.rs 207-226): nothing is sent when the object
\* holds no sender; otherwise the view's request, then the image's.
DropImage2d ==
    /\ \E id \in ResourceIds :
        /\ resources[id].kind = "Image2d"
        /\ resources[id].state = "live"
        /\ IF ~resources[id].delete_sender
           THEN /\ resources' = [resources EXCEPT ![id].state = "dropped"]
                /\ UNCHANGED delete_channel
           ELSE LET view_sent == try_send(delete_channel, PainterDelete("ImageView", id))
                    image_sent == IF view_sent.blocked THEN view_sent
                                  ELSE try_send(view_sent.channel, PainterDelete("Image", id))
                IN /\ delete_channel' = image_sent.channel
                   /\ resources' =
                        [resources EXCEPT ![id].state = AfterDrop({view_sent, image_sent}),
                                          ![id].delete_sender = FALSE]
        /\ gpu_memory' = drop_raw_allocation(gpu_memory, resources[id].bound_mem)
    /\ UNCHANGED <<device_handles, gpu_work, write_to_mem_result, recordVars, paintVars,
                   futureVars, allocatorVars, teardownVars, meshVars>>

\* Drop for CpuFuture (sync.rs 41-53).
DropCpuFuture ==
    /\ \E id \in ResourceIds :
        /\ resources[id].kind = "CpuFuture"
        /\ resources[id].state = "live"
        /\ LET sent == try_send(delete_channel, PainterDelete("Fence", id))
           IN /\ delete_channel' = sent.channel
              /\ resources' = [resources EXCEPT ![id].state = AfterDrop({sent})]
    /\ UNCHANGED <<device_handles, gpu_memory, gpu_work, write_to_mem_result, recordVars,
                   paintVars, futureVars, allocatorVars, teardownVars, meshVars>>

\* Drop for GpuFuture (sync.rs 94-106).
DropGpuFuture ==
    /\ \E id \in ResourceIds :
        /\ resources[id].kind = "GpuFuture"
        /\ resources[id].state = "live"
        /\ LET sent == try_send(delete_channel, PainterDelete("Semaphore", id))
           IN /\ delete_channel' = sent.channel
              /\ resources' = [resources EXCEPT ![id].state = AfterDrop({sent})]
    /\ UNCHANGED <<device_handles, gpu_memory, gpu_work, write_to_mem_result, recordVars,
                   paintVars, futureVars, allocatorVars, teardownVars, meshVars>>

\* The program calls Buffer::write_to_mem on a buffer it holds
\* (buffer.rs 33-42).
BufferWriteToMem ==
    /\ \E id \in ResourceIds, data \in DataStrings :
        /\ resources[id].kind = "Buffer"
        /\ resources[id].state = "live"
        /\ LET written == write_to_mem(resources[id].bound_mem, data)
           IN /\ write_to_mem_result' = [buffer |-> id, result |-> written.result]
              /\ resources' = [resources EXCEPT ![id].bound_mem = written.bound_mem]
    /\ UNCHANGED <<device_handles, gpu_memory, delete_channel, gpu_work, recordVars,
                   paintVars, futureVars, allocatorVars, teardownVars, meshVars>>

\* Nothing created yet.
InitResourceVars ==
    /\ resources = [id \in ResourceIds |-> NoResource]
    /\ device_handles = {}
    /\ gpu_memory = {}
    /\ delete_channel = <<>>
    /\ gpu_work = {}
    /\ write_to_mem_result = [buffer |-> 0, result |-> "none"]

\* While the other parts run, no resource of this part is created.
IdleResourceVars ==
    /\ resources = <<>>
    /\ device_handles = {}
    /\ gpu_memory = {}
    /\ delete_channel = <<>>
    /\ gpu_work = {}
    /\ write_to_mem_result = Nothing

\* The key of an allocation: the kind of resource it was made for and the
\* resource's handle.
AllocationKey(kind, id) == <<kind, id>>

AllocationKeys ==
    {AllocationKey("buffer", id) : id \in ResourceIds}
        \cup {AllocationKey("image", id) : id \in AllocatorImages}

\* HashMap::remove in delete_allocations_inner (allocator.rs 145, 152): the
\* entry leaves the map.
map_remove_Kept(map, key) == map

map_remove(map, key) == [map EXCEPT ![key] = Nothing]

\* The state delete_allocations_inner works on: the two maps, the memory
\* allocated, the calls of allocator.free made, the allocations for which
\* allocator.free answers with an error, and what the function returns.
AllocatorState(buffers, images, memory, calls, failing) ==
    [buffer_allocations |-> buffers, image_allocations |-> images,
     allocator_memory |-> memory, free_calls |-> calls, failing |-> failing,
     result |-> "Ok"]

\* What an error of allocator.free does to the loop that made the call
\* (allocator.rs 146-148, 153-155): `?` returns it from the function.
free_error(result, error) == error

\* allocator.free(allocation) for the allocation of key: the call is counted;
\* it releases the memory, or answers with an error and releases nothing.
Freed(state, key, error) ==
    IF key \in state.failing
    THEN [state EXCEPT !.free_calls[key] = @ + 1,
                       !.result = free_error(@, error)]
    ELSE [state EXCEPT !.free_calls[key] = @ + 1,
                       !.allocator_memory = @ \ {key}]

\* The first loop of delete_allocations_inner (allocator.rs 144-150): each
\* named buffer that has an entry loses it, and the entry's allocation is
\* given to allocator.free; the loop ends at the first error.
RECURSIVE FreeBuffers(_, _)
FreeBuffers(state, buffers) ==
    IF buffers = <<>> \/ state.result # "Ok" THEN state
    ELSE LET buffer == Head(buffers)
             key == AllocationKey("buffer", buffer)
         IN FreeBuffers(
                IF state.buffer_allocations[buffer] # Nothing
                THEN Freed([state EXCEPT !.buffer_allocations = map_remove(@, buffer)],
                           key, "at buffer deallocation")
                ELSE state,
                Tail(buffers))

\* The second loop (allocator.rs 151-157), over the named images; it is not
\* reached when the first loop returned an error.
RECURSIVE FreeImages(_, _)
FreeImages(state, images) ==
    IF images = <<>> \/ state.result # "Ok" THEN state
    ELSE LET image == Head(images)
             key == AllocationKey("image", image)
         IN FreeImages(
                IF state.image_allocations[image] # Nothing
                THEN Freed([state EXCEPT !.image_allocations = map_remove(@, image)],
                           key, "at image deallocation")
                ELSE state,
                Tail(images))

\* Allocator::delete_allocations_inner (allocator.rs 139-159).
delete_allocations_inner(state, buffers, images) ==
    FreeImages(FreeBuffers(state, buffers), images)

\* What write_to_buffer_mem leaves: the value it returned ("Ok", the error's
\* text, or "panic" when the slice index is out of range) and the map after.
Wrote(result, allocations) == [result |-> result, buffer_allocations |-> allocations]

\* Allocator::write_to_buffer_mem (allocator.rs 70-80).
write_to_buffer_mem(allocations, buffer, data) ==
    IF allocations[buffer] = Nothing THEN Wrote("buffer not found", allocations)
    ELSE IF mapped_slice_mut(allocations[buffer][1]) = Nothing
         THEN Wrote("buffer memory cant be mapped as mutable", allocations)
    ELSE IF Len(data) > Len(allocations[buffer][1].bytes) THEN Wrote("panic", allocations)
    ELSE Wrote("Ok",
               [allocations EXCEPT ![buffer] =
                    Some(Allocation(TRUE, copy_from_slice(allocations[buffer][1].bytes, data)))])

\* No delete_allocations yet. A call leaves the buffers and images it named,
\* the keys of those that had an entry in the maps, and what it returned.
NoDeleteCall == [buffers |-> {}, images |-> {}, had |-> {}, result |-> "none"]

\* The Allocator is alive and has not been dropped. A drop leaves the keys of
\* the allocations the maps held when it began.
NotDropped == [dropped |-> FALSE, tracked |-> {}]

\* No write_to_buffer_mem yet.
NoWriteCall ==
    [buffer |-> 0, data |-> <<>>, result |-> "none", before |-> <<>>]

\* Allocator::create_buffer (allocator.rs 26-68). An error after the buffer
\* was created leaves the buffer; an error after the allocation was made
\* leaves the allocation too, outside the map.
AllocatorCreateBuffer ==
    /\ ~allocator_drop.dropped
    /\ \E id \in ResourceIds \ allocator_buffers, gpu_local \in BOOLEAN,
          outcome \in {"Ok", "at buffer creation", "at buffer allocation",
                       "at buffer memory binding"} :
        /\ allocator_buffers' =
                IF outcome = "at buffer creation" THEN allocator_buffers
                ELSE allocator_buffers \cup {id}
        /\ allocator_memory' =
                IF outcome \in {"Ok", "at buffer memory binding"}
                THEN allocator_memory \cup {AllocationKey("buffer", id)}
                ELSE allocator_memory
        /\ buffer_allocations' =
                IF outcome = "Ok"
                THEN [buffer_allocations EXCEPT
                        ![id] = Some(Allocation(~gpu_local, FreshRegion))]
                ELSE buffer_allocations
    /\ UNCHANGED <<allocator_images, image_allocations, free_calls, delete_call, write_call,
                   allocator_drop, recordVars, paintVars, futureVars, resourceVars, teardownVars, meshVars>>

\* Allocator::create_image_2d (allocator.rs 82-137).
AllocatorCreateImage2d ==
    /\ ~allocator_drop.dropped
    /\ \E id \in AllocatorImages \ allocator_images, gpu_local \in BOOLEAN,
          outcome \in {"Ok", "at image creation", "at image allocation",
                       "at image memory binding"} :
        /\ allocator_images' =
                IF outcome = "at image creation" THEN allocator_images
                ELSE allocator_images \cup {id}
        /\ allocator_memory' =
                IF outcome \in {"Ok", "at image memory binding"}
                THEN allocator_memory \cup {AllocationKey("image", id)}
                ELSE allocator_memory
        /\ image_allocations' =
                IF outcome = "Ok"
                THEN [image_allocations EXCEPT
                        ![id] = Some(Allocation(~gpu_local, FreshRegion))]
                ELSE image_allocations
    /\ UNCHANGED <<allocator_buffers, buffer_allocations, free_calls, delete_call,
                   write_call, allocator_drop, recordVars, paintVars, futureVars,
                   resourceVars, teardownVars, meshVars>>

\* The keys of the allocations the two maps hold.
Tracked(buffers, images) ==
    {AllocationKey("buffer", id) : id \in {b \in DOMAIN buffers : buffers[b] # Nothing}}
        \cup {AllocationKey("image", id) : id \in {i \in DOMAIN images : images[i] # Nothing}}

\* The answers of allocator.free one call of delete_allocations_inner can
\* meet: every free succeeds, or one allocation's free fails. The function
\* returns at the first failure, so no free after it is made.
FailingFrees(keys) == {{}} \cup {{key} : key \in keys}

\* The orders in which HashMap::keys can give the keys of a map.
KeyOrders(map) ==
    LET keys == {k \in DOMAIN map : map[k] # Nothing}
    IN {order \in [1..Cardinality(keys) -> keys] :
            \A k \in keys : \E i \in DOMAIN order : order[i] = k}

\* The keys of the allocations the maps hold for the buffers and images a
\* call names.
NamedTracked(buffers, images) ==
    {AllocationKey("buffer", buffers[i]) : i \in
        {j \in DOMAIN buffers : buffer_allocations[buffers[j]] # Nothing}}
    \cup {AllocationKey("image", images[i]) : i \in
        {j \in DOMAIN images : image_allocations[images[j]] # Nothing}}

\* Allocator::delete_allocations (allocator.rs 161-169), with any of the
\* buffers and images that exist named, in the maps or not, some of them
\* twice. allocator.free succeeds for an allocation this allocator made and
\* has not freed, which every entry of the maps is.
DeleteAllocations ==
    /\ ~allocator_drop.dropped
    /\ \E buffers \in NamedBuffers, images \in NamedImages :
        /\ \A i \in DOMAIN buffers : buffers[i] \in allocator_buffers
        /\ \A i \in DOMAIN images : images[i] \in allocator_images
        /\ LET after == delete_allocations_inner(
                            AllocatorState(buffer_allocations, image_allocations,
                                           allocator_memory, free_calls, {}),
                            buffers, images)
            IN /\ buffer_allocations' = after.buffer_allocations
               /\ image_allocations' = after.image_allocations
               /\ allocator_memory' = after.allocator_memory
               /\ free_calls' = after.free_calls
               /\ delete_call' =
                    [buffers |-> {buffers[i] : i \in DOMAIN buffers},
                     images |-> {images[i] : i \in DOMAIN images},
                     had |-> NamedTracked(buffers, images),
                     result |-> after.result]
    /\ UNCHANGED <<allocator_buffers, allocator_images, write_call, allocator_drop,
                   recordVars, paintVars, futureVars, resourceVars, teardownVars, meshVars>>

\* Drop for Allocator (allocator.rs 172-181): delete_allocations_inner with
\* the keys of both maps, in the order the maps give them, here with
\* allocator.free free to fail; the error is printed and dropped.
AllocatorDrop ==
    /\ ~allocator_drop.dropped
    /\ \E buffers \in KeyOrders(buffer_allocations), images \in KeyOrders(image_allocations),
          failing \in FailingFrees(Tracked(buffer_allocations, image_allocations)) :
        LET after == delete_allocations_inner(
                        AllocatorState(buffer_allocations, image_allocations,
                                       allocator_memory, free_calls, failing),
                        buffers, images)
        IN /\ buffer_allocations' = after.buffer_allocations
           /\ image_allocations' = after.image_allocations
           /\ allocator_memory' = after.allocator_memory
           /\ free_calls' = after.free_calls
           /\ allocator_drop' =
                [dropped |-> TRUE,
                 tracked |-> Tracked(buffer_allocations, image_allocations)]
    /\ UNCHANGED <<allocator_buffers, allocator_images, delete_call, write_call,
                   recordVars, paintVars, futureVars, resourceVars, teardownVars, meshVars>>

\* Allocator::write_to_buffer_mem (allocator.rs 70-80) is called once, with
\* any buffer and any data.
WriteToBufferMem ==
    /\ write_call.result = "none"
    /\ \E buffer \in ResourceIds, data \in DataStrings :
        LET wrote == write_to_buffer_mem(buffer_allocations, buffer, data)
        IN /\ buffer_allocations' = wrote.buffer_allocations
           /\ write_call' =
                [buffer |-> buffer, data |-> data, result |-> wrote.result,
                 before |-> buffer_allocations]
    /\ UNCHANGED <<allocator_buffers, allocator_images, image_allocations,
                   allocator_memory, free_calls, delete_call, allocator_drop, recordVars,
                   paintVars, futureVars, resourceVars, teardownVars, meshVars>>

\* Allocator::new (allocator.rs 16-24): both maps empty.
InitAllocatorVars ==
    /\ allocator_buffers = {}
    /\ allocator_images = {}
    /\ buffer_allocations = [id \in ResourceIds |-> Nothing]
    /\ image_allocations = [id \in AllocatorImages |-> Nothing]
    /\ allocator_memory = {}
    /\ free_calls = [key \in AllocationKeys |-> 0]
    /\ delete_call = NoDeleteCall
    /\ write_call = NoWriteCall
    /\ allocator_drop = NotDropped

\* While the other parts run, the Allocator of this part is left alone.
IdleAllocatorVars ==
    /\ allocator_buffers = {}
    /\ allocator_images = {}
    /\ buffer_allocations = <<>>
    /\ image_allocations = <<>>
    /\ allocator_memory = {}
    /\ free_calls = <<>>
    /\ delete_call = Nothing
    /\ write_call = Nothing
    /\ allocator_drop = Nothing

\* An Allocator some of whose buffers have allocations, host-mappable with
\* any contents or not host-mappable.
WrittenAllocatorVars ==
    /\ buffer_allocations \in
            [ResourceIds ->
                {Nothing, Some(Allocation(FALSE, FreshRegion))}
                    \cup {Some(Allocation(TRUE, region)) : region \in Regions}]
    /\ allocator_buffers = {id \in ResourceIds : buffer_allocations[id] # Nothing}
    /\ allocator_memory = {AllocationKey("buffer", id) : id \in allocator_buffers}
    /\ allocator_images = {}
    /\ image_allocations = [id \in AllocatorImages |-> Nothing]
    /\ free_calls = [key \in AllocationKeys |-> 0]
    /\ delete_call = NoDeleteCall
    /\ write_call = NoWriteCall
    /\ allocator_drop = NotDropped

\* A future as CpuFuture::new makes it (sync.rs 23-35), signaled or not.
InitCpuFutureVars ==
    /\ cpu_future \in {"unsignaled", "signaled"}
    /\ cpu_future_pending = 0
    /\ cpu_future_call = Call("none", "none", Ok)
    /\ waits_returned = 0

\* While the other parts run, the future of this part is left alone.
IdleCpuFutureVars ==
    /\ cpu_future = "unsignaled"
    /\ cpu_future_pending = 0
    /\ cpu_future_call = Nothing
    /\ waits_returned = 0

\* The state after Canvas::new (lib.rs 61-120): one swapchain at the surface's
\* extent, draw-complete fences created signaled, the acquire fence created
\* unsignaled, nothing submitted.
InitPaintVars ==
    /\ pc = "idle"
    /\ frame_num = 0
    /\ first_acquire = "none"
    /\ acquire_image_cpu_fut = CpuFutureNew(FALSE)
    /\ acquire_signals_pending = 0
    /\ draw_complete_cpu_futs = [k \in Slots |-> CpuFutureNew(TRUE)]
    /\ refresh_fence = "unsignaled"
    /\ gpu_queue = <<>>
    /\ swapchain = 1
    /\ swapchain_images = 1
    /\ surface_resolution = 1
    /\ new_swapchain = 0
    /\ new_resolution = 0
    /\ swapchains_created = 1
    /\ destroyed_swapchains = {}
    /\ stale_reports = 0
    /\ present_answer = "none"
    /\ present_return = "none"
    /\ paint_result = "none"
    /\ inflight_at_refresh = FALSE
    /\ acquire_call = NoAcquireCall
    /\ draw_complete_gpu_futs = [k \in Slots |-> FALSE]
    /\ present_queue = <<>>
    /\ on_screen = "none"
    /\ device_lost = FALSE
    /\ image_states \in InitialImageStates

\* ------------------------------------------------------------------
\* Teardown (Part 6)
\* ------------------------------------------------------------------
\* The fields whose objects hold an Arc<Painter>: the Canvas's own reference
\* (lib.rs 48), Sheets, MeshPainter (mesh_painter.rs 235), CommandPool
\* (command.rs 411-414) and CommandBuffer (command.rs 110-114). CpuFuture and
\* GpuFuture keep only a clone of the delete sender (sync.rs 17-20, 89-92).
HoldsPainter(field) ==
    field \in {"painter", "sheets", "mesh_painter", "command_pool", "command_buffers",
               "upload_command_buffer"}

\* The handles the drop of a field destroys with a call on the device:
\* Sheets its swapchain (sheets.rs 314-320), MeshPainter its sampler
\* (mesh_painter.rs 620-628), CommandPool its pool (command.rs 462-467).
DestroysInDrop(field) ==
    CASE field = "sheets" -> {Handle("Swapchain", field)}
      [] field = "mesh_painter" -> {Handle("Sampler", field)}
      [] field = "command_pool" -> {Handle("CommandPool", field)}
      [] OTHER -> {}

\* The requests the drop of a field sends on the delete channel: the
\* semaphores and fences of the futures (sync.rs 41-53, 94-106) and the
\* buffers MeshPainter holds (buffer.rs 45-57).
SendsInDrop(field) ==
    CASE field = "draw_complete_gpu_futs" -> <<PainterDelete("Semaphore", field)>>
      [] field = "draw_complete_cpu_futs" -> <<PainterDelete("Fence", field)>>
      [] field = "acquire_image_cpu_fut" -> <<PainterDelete("Fence", field)>>
      [] field = "mesh_painter" -> <<PainterDelete("Buffer", field)>>
      [] OTHER -> <<>>

\* The handle a delete request names.
RequestHandle(request) == Handle(request.delete, request.handle)

\* Every handle the objects of the Canvas were created with.
CanvasHandles ==
    UNION {DestroysInDrop(field) \cup
           {RequestHandle(SendsInDrop(field)[i]) : i \in DOMAIN SendsInDrop(field)} :
           field \in CanvasFieldNames}

RECURSIVE SendAll(_, _)
SendAll(channel, requests) ==
    IF requests = <<>> THEN channel
    ELSE SendAll(try_send(channel, Head(requests)).channel, Tail(requests))

\* Drop for Painter (painter.rs 283-291), run when the last Arc<Painter> goes
\* away: destroy_device, whatever handles exist and whatever the delete
\* channel holds.
PainterDropped(strong_count) == strong_count = 0

\* One field of the Canvas is dropped, the fields in any order: the object's
\* Drop destroys its own handles or sends its delete requests, and then the
\* Arc<Painter> it holds is released.
DropField ==
    /\ \E field \in CanvasFieldNames :
        /\ teardown.canvas_fields[field] = "held"
        /\ LET strong_count == IF HoldsPainter(field)
                               THEN teardown.painter_strong_count - 1
                               ELSE teardown.painter_strong_count
           IN teardown' =
                [canvas_fields |-> [teardown.canvas_fields EXCEPT ![field] = "dropped"],
                 handles |-> teardown.handles \ DestroysInDrop(field),
                 channel |-> SendAll(teardown.channel, SendsInDrop(field)),
                 painter_strong_count |-> strong_count,
                 device_destroyed |->
                    (teardown.device_destroyed \/ PainterDropped(strong_count))]
    /\ UNCHANGED <<recordVars, paintVars, futureVars, resourceVars, allocatorVars, meshVars>>

\* The Painter, while it exists, receives a delete request and destroys the
\* handle it names.
PainterDeleteReceived ==
    /\ ~teardown.device_destroyed
    /\ teardown.channel # <<>>
    /\ teardown' =
            [teardown EXCEPT !.handles = @ \ {RequestHandle(Head(teardown.channel))},
                             !.channel = Tail(@)]
    /\ UNCHANGED <<recordVars, paintVars, futureVars, resourceVars, allocatorVars, meshVars>>

\* The Canvas as Canvas::new leaves it (lib.rs 62-119): every field held, one
\* Arc<Painter> in each object that keeps one, every handle alive.
InitTeardownVars ==
    teardown =
        [canvas_fields |-> [field \in CanvasFieldNames |-> "held"],
         painter_strong_count |->
            Cardinality({field \in CanvasFieldNames : HoldsPainter(field)}),
         device_destroyed |-> FALSE,
         handles |-> CanvasHandles,
         channel |-> <<>>]

\* While the other parts run, no Canvas is torn down.
IdleTeardownVars == teardown = <<>>

\* ------------------------------------------------------------------
\* MeshPainter (Part 7)
\* ------------------------------------------------------------------
\* struct ObjDrawParams (mesh_painter.rs 177-182), with the obj_id and
\* mesh_id of its GpuObjectInfo.
ObjDrawParams(vert_offset, idx_offset, idx_count, obj_id, mesh_id) ==
    [vert_offset |-> vert_offset, idx_offset |-> idx_offset, idx_count |-> idx_count,
     obj_id |-> obj_id, mesh_id |-> mesh_id]

\* The value update_inputs stores in the index buffer for index i of a mesh
\* whose vertices start at vb_offset (mesh_painter.rs 483).
stored_index(i, vb_offset) == i + vb_offset

\* The locals of update_inputs before its loop (mesh_painter.rs 456-471).
NoInputs ==
    [vb_data |-> <<>>, ib_data |-> <<>>, vb_offset |-> 0, ib_offset |-> 0, mesh_id |-> 0,
     objects |-> <<>>]

\* The loop of update_inputs (mesh_painter.rs 473-503): a drawable whose mesh
\* or texture is not known is skipped; the others append their vertices,
\* their indices and one ObjDrawParams.
RECURSIVE UpdateLoop(_, _, _)
UpdateLoop(known_meshes, acc, list) ==
    IF list = <<>> THEN acc
    ELSE LET drawable == Head(list)
         IN IF drawable.mesh_name \notin DOMAIN known_meshes
                \/ drawable.texture_name \notin TextureIDs
            THEN UpdateLoop(known_meshes, acc, Tail(list))
            ELSE LET mesh == known_meshes[drawable.mesh_name]
                 IN UpdateLoop(known_meshes,
                        [vb_data |-> acc.vb_data \o
                                [k \in 1..Len(mesh.vertices) |->
                                    <<drawable.mesh_name, mesh.vertices[k]>>],
                         ib_data |-> acc.ib_data \o
                                [k \in 1..Len(mesh.indices) |->
                                    stored_index(mesh.indices[k], acc.vb_offset)],
                         vb_offset |-> acc.vb_offset + Len(mesh.vertices),
                         ib_offset |-> acc.ib_offset + Len(mesh.indices),
                         mesh_id |-> acc.mesh_id + 1,
                         objects |-> Append(acc.objects,
                                ObjDrawParams(acc.vb_offset, acc.ib_offset,
                                              Len(mesh.indices), Len(acc.objects),
                                              acc.mesh_id))],
                        Tail(list))

\* What update_inputs leaves in the frame slot (mesh_painter.rs 505-520): the
\* data written to the vertex and index buffers and next_draw_params.
update_inputs(known_meshes, list) ==
    LET acc == UpdateLoop(known_meshes, NoInputs, list)
    IN [vb_data |-> acc.vb_data, ib_data |-> acc.ib_data,
        next_draw_params |-> acc.objects, updated |-> TRUE]

\* The Draw commands of draw_meshes_command (mesh_painter.rs 583-595), one
\* for each entry of next_draw_params.
draw_meshes_command(next_draw_params) ==
    [j \in 1..Len(next_draw_params) |->
        [count |-> next_draw_params[j].idx_count,
         vertex_offset |-> next_draw_params[j].vert_offset,
         index_offset |-> next_draw_params[j].idx_offset]]

\* cmd_draw_indexed(count, 1, index_offset, vertex_offset, 0) as record issues
\* it for a Draw (command.rs 365-378): the positions in the vertex buffer of
\* the vertices it reads, which are the values of the count indices from
\* index_offset on, each plus vertex_offset.
VerticesRead(ib_data, draw) ==
    {ib_data[draw.index_offset + k] + draw.vertex_offset : k \in 1..draw.count}

\* MeshPainter::update_inputs is called with the drawables.
UpdateInputs ==
    /\ ~mesh_painter.per_frame_data.updated
    /\ mesh_painter' =
            [mesh_painter EXCEPT
                !.per_frame_data = update_inputs(mesh_painter.meshes, mesh_painter.drawables)]
    /\ UNCHANGED <<recordVars, paintVars, futureVars, resourceVars, allocatorVars,
                   teardownVars>>

\* MeshPainter::draw_meshes_command for the slot that update_inputs filled.
DrawMeshesCommand ==
    /\ mesh_painter.per_frame_data.updated
    /\ mesh_painter.render_cmds = Nothing
    /\ mesh_painter' =
            [mesh_painter EXCEPT
                !.render_cmds =
                    Some(draw_meshes_command(mesh_painter.per_frame_data.next_draw_params))]
    /\ UNCHANGED <<recordVars, paintVars, futureVars, resourceVars, allocatorVars,
                   teardownVars>>

\* A frame slot as PerFrameData::new leaves it (mesh_painter.rs 139-160).
NewPerFrameData ==
    [vb_data |-> <<>>, ib_data |-> <<>>, next_draw_params |-> <<>>, updated |-> FALSE]

\* The MeshPainter with its meshes, before update_inputs is called.
MeshPainter(meshes, drawables) ==
    [meshes |-> meshes, drawables |-> drawables, per_frame_data |-> NewPerFrameData,
     render_cmds |-> Nothing]

\* While the other parts run: no mesh, no drawable.
IdleMeshVars == mesh_painter = <<>>

\* Any meshes whose indices name vertices of their own, and any drawables.
InitMeshVars ==
    mesh_painter \in {MeshPainter(meshes, drawables) :
                        meshes \in [MeshIDs -> Meshes], drawables \in DrawableLists}

InitRecord ==
    /\ commands \in CommandLists
    /\ stream = <<>>
    /\ record_result = "none"
    /\ record_answers = NoAnswers
    /\ InitPaintVars
    /\ IdleCpuFutureVars
    /\ IdleResourceVars
    /\ IdleAllocatorVars
    /\ IdleTeardownVars
    /\ IdleMeshVars

NextRecord == Record

SpecRecord == InitRecord /\ [][NextRecord]_vars

InitPaint ==
    /\ commands = <<>>
    /\ stream = <<>>
    /\ record_result = "none"
    /\ record_answers = NoAnswers
    /\ InitPaintVars
    /\ IdleCpuFutureVars
    /\ IdleResourceVars
    /\ IdleAllocatorVars
    /\ IdleTeardownVars
    /\ IdleMeshVars

NextPaint ==
    \/ PaintBegin
    \/ AcquireNextImage
    \/ RefreshSubmit
    \/ RefreshWaitAndSwap
    \/ AcquireFenceWait
    \/ PaintWaitAcquire
    \/ PaintWaitDrawComplete
    \/ PaintUpdateInputs
    \/ PaintRecord
    \/ PaintSubmit
    \/ PaintPresent
    \/ \E j \in 1..(NumFrames + MaxStale) : GpuComplete(j)
    \/ AcquireSignal
    \/ PresentBegins

SpecPaint == InitPaint /\ [][NextPaint]_vars

\* The frame loop, and calls of acquire_next_image without a fence or a
\* semaphore between the paints.
\* The steps of a running paint call (lib.rs 122-203), made by the thread of
\* the event loop.
PaintStep ==
    \/ AcquireNextImage
    \/ RefreshSubmit
    \/ RefreshWaitAndSwap
    \/ AcquireFenceWait
    \/ PaintWaitAcquire
    \/ PaintWaitDrawComplete
    \/ PaintUpdateInputs
    \/ PaintRecord
    \/ PaintSubmit
    \/ PaintPresent

\* No device call of the step fails: none returns an error code, so the
\* acquire and the present are answered SUCCESS or SUBOPTIMAL_KHR and paint
\* does not return Err.
CallsSucceed ==
    /\ paint_result' # "Err"
    /\ ~device_lost'
    /\ acquire_call'.answer \in {"none", "SUCCESS", "SUBOPTIMAL_KHR"}
    /\ present_answer' \in {"none", "SUCCESS", "SUBOPTIMAL_KHR"}

\* Paint calls whose device calls all succeed, on a device that completes
\* every submitted command buffer, every acquisition and every present
\* request, with a thread that runs the paint call it is in.
NextNoFailure ==
    \/ PaintBegin
    \/ AcquireNextImage /\ CallsSucceed
    \/ RefreshSubmit /\ CallsSucceed
    \/ RefreshWaitAndSwap /\ CallsSucceed
    \/ AcquireFenceWait /\ CallsSucceed
    \/ PaintWaitAcquire /\ CallsSucceed
    \/ PaintWaitDrawComplete /\ CallsSucceed
    \/ PaintUpdateInputs /\ CallsSucceed
    \/ PaintRecord /\ CallsSucceed
    \/ PaintSubmit /\ CallsSucceed
    \/ PaintPresent /\ CallsSucceed
    \/ \E j \in 1..(NumFrames + MaxStale) : GpuComplete(j)
    \/ AcquireSignal
    \/ PresentBegins

SpecNoFailure ==
    /\ InitPaint
    /\ [][NextNoFailure]_vars
    /\ WF_vars(PaintStep /\ CallsSucceed)
    /\ \A j \in 1..(NumFrames + MaxStale) : WF_vars(GpuComplete(j))
    /\ WF_vars(AcquireSignal)
    /\ WF_vars(PresentBegins)

NextAcquire ==
    \/ NextPaint
    \/ AcquireWithoutSync

SpecAcquire == InitPaint /\ [][NextAcquire]_vars

InitCpuFuture ==
    /\ commands = <<>>
    /\ stream = <<>>
    /\ record_result = "none"
    /\ record_answers = NoAnswers
    /\ InitPaintVars
    /\ InitCpuFutureVars
    /\ IdleResourceVars
    /\ IdleAllocatorVars
    /\ IdleTeardownVars
    /\ IdleMeshVars

NextCpuFuture ==
    \/ CpuFutureCall
    \/ CpuFutureWaitReturns
    \/ WaitAndResetReturns
    \/ CpuFutureReset
    \/ CpuFutureGiven
    \/ CpuFutureSignaled

SpecCpuFuture == InitCpuFuture /\ [][NextCpuFuture]_vars

InitResources ==
    /\ commands = <<>>
    /\ stream = <<>>
    /\ record_result = "none"
    /\ record_answers = NoAnswers
    /\ InitPaintVars
    /\ IdleCpuFutureVars
    /\ InitResourceVars
    /\ IdleAllocatorVars
    /\ IdleTeardownVars
    /\ IdleMeshVars

NextResources ==
    \/ NewBuffer
    \/ NewImage2d
    \/ NewSwapchainImage2d
    \/ NewCpuFuture
    \/ NewGpuFuture
    \/ GpuWorkSubmitted
    \/ GpuWorkCompleted
    \/ DropBuffer
    \/ DropImage2d
    \/ DropCpuFuture
    \/ DropGpuFuture
    \/ BufferWriteToMem

SpecResources == InitResources /\ [][NextResources]_vars

InitAllocator ==
    /\ commands = <<>>
    /\ stream = <<>>
    /\ record_result = "none"
    /\ record_answers = NoAnswers
    /\ InitPaintVars
    /\ IdleCpuFutureVars
    /\ InitResourceVars
    /\ InitAllocatorVars
    /\ IdleTeardownVars
    /\ IdleMeshVars

NextAllocator ==
    \/ AllocatorCreateBuffer
    \/ AllocatorCreateImage2d
    \/ DeleteAllocations

SpecAllocator == InitAllocator /\ [][NextAllocator]_vars

\* The Allocator's operations and, at any point, its drop.
NextAllocatorDrop ==
    \/ NextAllocator
    \/ AllocatorDrop

SpecAllocatorDrop == InitAllocator /\ [][NextAllocatorDrop]_vars

InitWrite ==
    /\ commands = <<>>
    /\ stream = <<>>
    /\ record_result = "none"
    /\ record_answers = NoAnswers
    /\ InitPaintVars
    /\ IdleCpuFutureVars
    /\ InitResourceVars
    /\ WrittenAllocatorVars
    /\ IdleTeardownVars
    /\ IdleMeshVars

NextWrite == WriteToBufferMem

SpecWrite == InitWrite /\ [][NextWrite]_vars

InitTeardown ==
    /\ commands = <<>>
    /\ stream = <<>>
    /\ record_result = "none"
    /\ record_answers = NoAnswers
    /\ InitPaintVars
    /\ IdleCpuFutureVars
    /\ IdleResourceVars
    /\ IdleAllocatorVars
    /\ InitTeardownVars
    /\ IdleMeshVars

NextTeardown ==
    \/ DropField
    \/ PainterDeleteReceived

SpecTeardown == InitTeardown /\ [][NextTeardown]_vars

InitMesh ==
    /\ commands = <<>>
    /\ stream = <<>>
    /\ record_result = "none"
    /\ record_answers = NoAnswers
    /\ InitPaintVars
    /\ IdleCpuFutureVars
    /\ IdleResourceVars
    /\ IdleAllocatorVars
    /\ IdleTeardownVars
    /\ InitMeshVars

NextMesh ==
    \/ UpdateInputs
    \/ DrawMeshesCommand

SpecMesh == InitMesh /\ [][NextMesh]_vars

\* ------------------------------------------------------------------
\* Properties of CommandBuffer::record
\* ------------------------------------------------------------------
\* record got past begin_command_buffer and ran both passes.
Recorded == record_result \in {"ok", "err_end"}

RECURSIVE AllTransitionsFrom(_, _)
AllTransitionsFrom(cmds, i) ==
    IF i > Len(cmds) THEN <<>>
    ELSE access_transitions(cmds[i]) \o AllTransitionsFrom(cmds, i + 1)

\* The transitions the list declares for image X, in list order.
TransitionsOf(cmds, X) ==
    SelectSeq(AllTransitionsFrom(cmds, 1), LAMBDA t : t.image = X)

\* The accesses the list declares for X: the new access of every mention,
\* preceded by the initial state when the first mention declares one.
DeclaredAccesses(cmds, X) ==
    LET ts == TransitionsOf(cmds, X)
    IN IF ts = <<>> THEN <<>>
       ELSE (IF ts[1].old_access # Nothing THEN <<ts[1].old_access[1]>> ELSE <<>>)
            \o [i \in 1..Len(ts) |-> ts[i].new_access[1]]

RECURSIVE Coalesce(_)
Coalesce(s) ==
    IF Len(s) <= 1 THEN s
    ELSE IF s[1] = s[2] THEN Coalesce(Tail(s))
    ELSE <<s[1]>> \o Coalesce(Tail(s))

Touches(command, X) ==
    \E i \in DOMAIN access_transitions(command) : access_transitions(command)[i].image = X

Mentioned(cmds, X) == \E i \in DOMAIN cmds : Touches(cmds[i], X)

IsBarrier(e) == e.ev = "cmd_pipeline_barrier"

\* The barriers of the stream s that name image X, in emission order.
BarriersOf(s, X) == SelectSeq(s, LAMBDA e : IsBarrier(e) /\ e.image = X)

\* The list index of the command before which position p of s was emitted:
\* the index of the first command entry after p.
NextCommandIdx(s, p) ==
    LET later == {q \in DOMAIN s : q > p /\ ~IsBarrier(s[q])}
    IN IF later = {} THEN -1
       ELSE s[CHOOSE q \in later : \A r \in later : q <= r].idx

\* The positions of s holding a barrier for X emitted before command c.
BarrierPositionsAt(s, X, c) ==
    {p \in DOMAIN s : IsBarrier(s[p]) /\ s[p].image = X /\ NextCommandIdx(s, p) = c}

\* C1: for every image X of the list whose declared accesses coalesce to
\* [s0, ..., sn], the barriers recorded for X are exactly s0->s1, ..., s(n-1)->sn:
\* n barriers, none before s0.
C1_BarrierPerDeclaredState ==
    Recorded =>
        \A X \in Images :
            Mentioned(commands, X) =>
                LET states == Coalesce(DeclaredAccesses(commands, X))
                    barriers == BarriersOf(stream, X)
                IN /\ Len(barriers) = Len(states) - 1
                   /\ \A k \in DOMAIN barriers :
                        barriers[k].old = states[k] /\ barriers[k].new = states[k + 1]

\* C2: every recorded barrier sits directly before the command that requires
\* its new access: the next command entry after it belongs to a command of the
\* list that names the barrier's image with the barrier's new access.
C2_BarrierBeforeItsCommand ==
    Recorded =>
        \A p \in DOMAIN stream :
            IsBarrier(stream[p]) =>
                LET i == NextCommandIdx(stream, p)
                IN /\ i >= 0
                   /\ \E t \in DOMAIN access_transitions(commands[i + 1]) :
                        /\ access_transitions(commands[i + 1])[t].image = stream[p].image
                        /\ access_transitions(commands[i + 1])[t].new_access = Some(stream[p].new)

C2_Witness ==
    /\ record_result = "ok"
    /\ \E p \in DOMAIN stream : IsBarrier(stream[p]) /\ NextCommandIdx(stream, p) >= 1

\* The list index of the first command that mentions X.
FirstMention(cmds, X) ==
    CHOOSE i \in 0..(Len(cmds) - 1) :
        /\ Touches(cmds[i + 1], X)
        /\ \A j \in 0..(i - 1) : ~Touches(cmds[j + 1], X)

\* The accesses a command names for X.
NamedAccesses(command, X) ==
    {access_transitions(command)[t].new_access[1] :
        t \in {u \in DOMAIN access_transitions(command) : access_transitions(command)[u].image = X}}

\* C3: a first mention by hint, blit or copy records no barrier at that
\* command and the first barrier of the image, if any, starts from the access
\* named there; a first mention by ImageAccessInit with access A other than
\* None records exactly one barrier at that command, None -> A.
C3_FirstMention ==
    Recorded =>
        \A X \in Images :
            Mentioned(commands, X) =>
                LET c == FirstMention(commands, X)
                    first == commands[c + 1]
                    at == BarrierPositionsAt(stream, X, c)
                    barriers == BarriersOf(stream, X)
                IN IF first.kind = "ImageAccessInit"
                   THEN first.access # "None" =>
                            /\ Cardinality(at) = 1
                            /\ \A p \in at : stream[p].old = "None" /\ stream[p].new = first.access
                   ELSE /\ at = {}
                        /\ barriers # <<>> => barriers[1].old \in NamedAccesses(first, X)

C3_Witness ==
    /\ record_result = "ok"
    /\ \E X \in Images, Y \in Images :
        /\ Mentioned(commands, X) /\ Mentioned(commands, Y)
        /\ commands[FirstMention(commands, X) + 1].kind = "ImageAccessInit"
        /\ commands[FirstMention(commands, X) + 1].access # "None"
        /\ commands[FirstMention(commands, Y) + 1].kind # "ImageAccessInit"
        /\ BarriersOf(stream, Y) # <<>>

\* The list with every command that touches image A removed.
WithoutImage(cmds, A) == SelectSeq(cmds, LAMBDA c : ~Touches(c, A))

\* The number of commands before list index i that touch B.
RankAmong(cmds, B, i) == Cardinality({j \in 0..(i - 1) : Touches(cmds[j + 1], B)})

\* The barriers a recording s of cmds holds for B, each with its accesses and
\* the command of B it precedes (counted among the commands that touch B;
\* -1 when it precedes a command that does not touch B).
PlacedBarriers(s, cmds, B) ==
    LET positions == SelectSeq([p \in DOMAIN s |-> p],
                               LAMBDA p : IsBarrier(s[p]) /\ s[p].image = B)
    IN [k \in DOMAIN positions |->
            LET i == NextCommandIdx(s, positions[k])
            IN <<s[positions[k]].old, s[positions[k]].new,
                 IF i >= 0 /\ Touches(cmds[i + 1], B) THEN RankAmong(cmds, B, i) ELSE -1>>]

\* C4: when no command touches both A and B, recording the list without the
\* commands of A gives B the same barriers, with the same accesses, before the
\* same commands of B.
C4_NoCrossImageInterference ==
    Recorded =>
        \A A \in Images, B \in Images :
            (A # B /\ \A i \in DOMAIN commands : ~(Touches(commands[i], A) /\ Touches(commands[i], B))) =>
                LET reduced == WithoutImage(commands, A)
                IN \A order \in IterationOrders(DOMAIN Discover(reduced)) :
                    PlacedBarriers(RecordStream(reduced, order), reduced, B)
                        = PlacedBarriers(stream, commands, B)

C4_Witness ==
    /\ record_result = "ok"
    /\ \E A \in Images, B \in Images :
        /\ A # B
        /\ Mentioned(commands, A) /\ Mentioned(commands, B)
        /\ \A i \in DOMAIN commands : ~(Touches(commands[i], A) /\ Touches(commands[i], B))
        /\ BarriersOf(stream, A) # <<>>
        /\ BarriersOf(stream, B) # <<>>

\* The set of access values in a sequence.
Distinct(s) == {s[i] : i \in DOMAIN s}

\* C5 as stated: the barriers of an image number at most one less than the
\* distinct access values of its declared sequence.
C5_Original_DistinctBound ==
    Recorded =>
        \A X \in Images :
            Mentioned(commands, X) =>
                Len(BarriersOf(stream, X))
                    <= Cardinality(Distinct(DeclaredAccesses(commands, X))) - 1

\* C5 as amended: for every image the list mentions, the barriers number at
\* most one less than the entries of its declared sequence after equal
\* adjacent entries are coalesced.
C5_CoalescedBound ==
    Recorded =>
        \A X \in Images :
            Mentioned(commands, X) =>
                Len(BarriersOf(stream, X)) <= Len(Coalesce(DeclaredAccesses(commands, X))) - 1

C5_Witness ==
    /\ record_result = "ok"
    /\ \E X \in Images :
        /\ Len(BarriersOf(stream, X)) = 2
        /\ Len(DeclaredAccesses(commands, X)) > Len(Coalesce(DeclaredAccesses(commands, X)))

Scenario6 ==
    <<ImageAccessInit(1, "None"), ImageAccessHint(1, "TransferWrite"),
      ImageAccessHint(1, "ShaderRead")>>

\* C6: recording [init(img, None), hint(img, TransferWrite), hint(img, ShaderRead)]
\* records exactly two barriers for img: None -> TransferWrite before the
\* second command and TransferWrite -> ShaderRead before the third.
C6_InitHintHintScenario ==
    (commands = Scenario6 /\ Recorded) =>
        stream = <<Emitted(Scenario6[1], 0),
                   PipelineBarrier(1, "None", "TransferWrite"),
                   Emitted(Scenario6[2], 1),
                   PipelineBarrier(1, "TransferWrite", "ShaderRead"),
                   Emitted(Scenario6[3], 2)>>

C6_Witness == commands = Scenario6 /\ record_result = "ok"

\* ------------------------------------------------------------------
\* Properties of the frame loop and of Sheets
\* ------------------------------------------------------------------
\* C7: while the host resets and re-records the command buffer of the acquired
\* slot and writes that slot's vertex, index and scene buffers, no submission
\* that uses that command buffer or reads those buffers is in flight.
C7_HostWritesOnlyIdleSlot ==
    pc \in {"update_inputs", "record"} =>
        \A j \in DOMAIN gpu_queue :
            InFlight(j) =>
                /\ gpu_queue[j].cb # frame_num
                /\ pc = "update_inputs" => gpu_queue[j].buffers # norm_frame_number(frame_num)

C7_Witness ==
    /\ pc = "update_inputs"
    /\ \E j \in DOMAIN gpu_queue : InFlight(j) /\ gpu_queue[j].cb >= 0

\* C8: when the first acquire of a call reported the surface out of date and
\* the swapchain was rebuilt, the call is not left waiting on a fence that
\* nothing will signal: it can go on to its second acquire.
C8_StaleAcquireDoesNotBlock ==
    (pc = "refresh_fence_wait" /\ first_acquire = "ERROR_OUT_OF_DATE_KHR") =>
        acquire_image_cpu_fut \in {"pending", "signaled"}

\* C9: no draw submission is in flight on images of a swapchain that Sheets has
\* replaced or destroyed: the rebuild swaps only after earlier work finished.
C9_OldImagesIdleWhenSwapped ==
    \A j \in DOMAIN gpu_queue :
        (InFlight(j) /\ gpu_queue[j].cb >= 0) =>
            /\ gpu_queue[j].swapchain \notin destroyed_swapchains
            /\ gpu_queue[j].swapchain = swapchain_images

C9_Witness ==
    /\ pc = "refresh_fence_wait"
    /\ swapchain > 1
    /\ inflight_at_refresh

\* C10: present_image returns Ok when the device accepted the present or
\* reported the surface out of date, and Err for every other answer.
C10_PresentStaleIsNotFatal ==
    present_answer # "none" =>
        /\ present_answer \in {"SUCCESS", "SUBOPTIMAL_KHR", "ERROR_OUT_OF_DATE_KHR"}
                => present_return = "Ok"
        /\ present_answer \in {"ERROR_DEVICE_LOST", "ERROR_SURFACE_LOST_KHR"}
                => present_return = "Err"

C10_Witness == present_answer = "ERROR_OUT_OF_DATE_KHR" /\ present_return = "Ok"

\* paint or acquire_next_image resets acquire_image_cpu_fut in this step
\* (lib.rs 131-133, sheets.rs 271).
ResetsAcquireFence ==
    \/ pc = "wait_acquire" /\ pc' = "wait_draw"
    \/ pc = "refresh_fence_wait" /\ pc' = "acquire"

\* paint resets the acquired slot's draw-complete fence in this step
\* (lib.rs 141-143).
ResetsDrawFence == pc = "wait_draw" /\ pc' = "update_inputs"

\* C11: every reset of a CpuFuture is made on a signaled fence, so after a
\* wait on it returned, and with no operation outstanding that will signal
\* the fence: no acquire that was given it, no submission that carries it.
C11_ResetOnlyAfterWaitNothingPending ==
    [][/\ ResetsAcquireFence =>
            (acquire_image_cpu_fut = "signaled" /\ acquire_signals_pending = 0)
       /\ ResetsDrawFence =>
            /\ draw_complete_cpu_futs[frame_num] = "signaled"
            /\ \A j \in DOMAIN gpu_queue : gpu_queue[j].fence # frame_num]_vars

\* ------------------------------------------------------------------
\* Properties of CpuFuture
\* ------------------------------------------------------------------
\* C12: once a wait on the future has returned Ok, the future stays signaled
\* until it is reset, so every further wait finds it signaled and returns at
\* once, however many are made.
C12_SignaledUntilReset ==
    waits_returned > 0 => (cpu_future = "signaled" /\ WaitReturns(cpu_future))

C12_Witness ==
    /\ waits_returned >= 2
    /\ cpu_future_call = Call("cpu_future_wait", "returned", Ok)

\* C13: a wait that the device failed returns CpuFutureError::WaitError.
C13_WaitFailureIsWaitError ==
    (/\ cpu_future_call.op = "cpu_future_wait"
     /\ cpu_future_call.progress = "returned"
     /\ ~cpu_future_call.result.ok)
        => cpu_future_call.result.error = "WaitError"

\* C14: the presentation engine takes an image only after the commands of the
\* frame that painted it have finished executing: the present request waits on
\* the semaphore that frame's submission signals.
C14_PresentAfterRender == on_screen # "unrendered"

C14_Witness ==
    /\ on_screen = "rendered"
    /\ present_queue # <<>>
    /\ ~Head(present_queue).rendered

\* ------------------------------------------------------------------
\* Properties of resources, their drops and their memory
\* ------------------------------------------------------------------
\* The object id is dropped in this step.
DropStepOf(id) ==
    /\ resources[id].state = "live"
    /\ resources'[id].state \in {"dropped", "blocked"}

\* The requests a step appended to the delete channel.
Enqueued == SubSeq(delete_channel', Len(delete_channel) + 1, Len(delete_channel'))

\* C15: dropping a Buffer, an Image2d, a CpuFuture or a GpuFuture returns
\* without blocking, whatever work is in flight; it destroys no device handle
\* and releases no memory; all it does is append delete requests for its own
\* handles to the channel.
C15_DropOnlyEnqueues ==
    [][\A id \in ResourceIds :
            DropStepOf(id) =>
                /\ resources'[id].state = "dropped"
                /\ device_handles' = device_handles
                /\ gpu_memory' = gpu_memory
                /\ Len(delete_channel') >= Len(delete_channel)
                /\ SubSeq(delete_channel', 1, Len(delete_channel)) = delete_channel
                /\ \A i \in DOMAIN Enqueued :
                        /\ Enqueued[i].handle = id
                        /\ Handle(Enqueued[i].delete, id) \in HandlesOf(resources[id].kind, id)]_vars

C15_Witness ==
    \E id \in ResourceIds :
        /\ resources[id].kind = "Image2d"
        /\ resources[id].state = "dropped"
        /\ id \in gpu_work
        /\ id \in gpu_memory
        /\ HandlesOf("Image2d", id) \subseteq device_handles
        /\ \E i \in DOMAIN delete_channel : delete_channel[i] = PainterDelete("Image", id)
        /\ \E other \in ResourceIds :
                /\ resources[other].state = "dropped"
                /\ resources[other].kind = "Buffer"
                /\ \A i \in DOMAIN delete_channel : delete_channel[i].handle # other

\* C19: a Buffer that new_buffer created with an allocator holds its
\* allocation, so write_to_mem on it does not fail for want of memory.
C19_NewBufferHoldsAllocation ==
    \A id \in ResourceIds :
        (resources[id].kind = "Buffer" /\ resources[id].state = "live" /\ id \in gpu_memory) =>
            /\ resources[id].bound_mem # Nothing
            /\ write_to_mem_result.buffer = id =>
                    write_to_mem_result.result # "MemoryNotAllocatedError"

C17_WriteErrorsAreValues ==
    write_call.result # "none" =>
        LET target == write_call.before[write_call.buffer]
        IN /\ (target # Nothing /\ ~target[1].host_visible) =>
                    /\ write_call.result = "buffer memory cant be mapped as mutable"
                    /\ buffer_allocations = write_call.before
           /\ (target # Nothing /\ target[1].host_visible
                    /\ Len(write_call.data) > Len(target[1].bytes)) =>
                    /\ write_call.result \notin {"Ok", "panic"}
                    /\ buffer_allocations = write_call.before

\* C18: after write_to_buffer_mem returned Ok for data D, the first len(D)
\* bytes of the buffer's mapped region are D, its other bytes are what they
\* were, and no other allocation changed.
C18_WriteRoundTrip ==
    write_call.result = "Ok" =>
        LET before == write_call.before[write_call.buffer][1].bytes
            after == buffer_allocations[write_call.buffer][1].bytes
            data == write_call.data
        IN /\ Len(after) = Len(before)
           /\ \A i \in 1..Len(data) : after[i] = data[i]
           /\ \A i \in (Len(data) + 1)..Len(after) : after[i] = before[i]
           /\ \A other \in ResourceIds \ {write_call.buffer} :
                    buffer_allocations[other] = write_call.before[other]

C18_Witness ==
    /\ write_call.result = "Ok"
    /\ Len(write_call.data) = 1
    /\ write_call.before[write_call.buffer][1].bytes[1] # write_call.data[1]
    /\ write_call.before[write_call.buffer][1].bytes[MaxBytes] = 1

\* C20: record returns Ok only when begin_command_buffer and
\* end_command_buffer both succeeded; when begin fails it returns that error
\* having emitted nothing and without calling end; when end fails it returns
\* that error.
C20_RecordOkOnlyIfBeginAndEnd ==
    record_result # "none" =>
        /\ record_result = "ok" =>
                record_answers.begin = "SUCCESS" /\ record_answers.end = "SUCCESS"
        /\ record_answers.begin = "ERROR" =>
                record_result = "err_begin" /\ stream = <<>> /\ record_answers.end = "none"
        /\ (record_answers.begin = "SUCCESS" /\ record_answers.end = "ERROR") =>
                record_result = "err_end"

C20_Witness ==
    /\ record_answers = [begin |-> "SUCCESS", end |-> "ERROR"]
    /\ record_result = "err_end"
    /\ stream # <<>>

\* The state record has accumulated for X before the command at list index i:
\* the last access the earlier commands declared for it.
AccumulatedBefore(cmds, X, i) ==
    LET declared == DeclaredAccesses(SubSeq(cmds, 1, i), X)
    IN declared[Len(declared)]

\* The list indexes of the ImageAccessInit commands whose image an earlier
\* command of the list already mentioned.
LaterInits(cmds) ==
    {i \in 0..(Len(cmds) - 1) :
        /\ cmds[i + 1].kind = "ImageAccessInit"
        /\ Mentioned(SubSeq(cmds, 1, i), cmds[i + 1].src)}

\* The list with the ImageAccessInit at index i replaced by an ImageAccessHint
\* of the same image and access.
InitAsHintAt(cmds, i) ==
    [cmds EXCEPT ![i + 1] = ImageAccessHint(cmds[i + 1].src, cmds[i + 1].access)]

\* C22: an ImageAccessInit of an image the list mentioned before records no
\* assumed starting state. The accesses record collects, and so the stream it
\* emits, are those of the list with an ImageAccessHint in its place; before
\* that command the image gets one barrier from its last accumulated state to
\* the named access, or none when the two are equal.
C22_LaterInitIsHint ==
    Recorded =>
        \A i \in LaterInits(commands) :
            LET X == commands[i + 1].src
                access == commands[i + 1].access
                last == AccumulatedBefore(commands, X, i)
                at == BarrierPositionsAt(stream, X, i)
            IN /\ Discover(InitAsHintAt(commands, i)) = Discover(commands)
               /\ \A order \in IterationOrders(DOMAIN Discover(commands)) :
                    RecordStream(InitAsHintAt(commands, i), order)
                        = RecordStream(commands, order)
               /\ IF last = access THEN at = {}
                  ELSE /\ Cardinality(at) = 1
                       /\ \A p \in at : stream[p].old = last /\ stream[p].new = access

C22_Witness ==
    /\ record_result = "ok"
    /\ \E i \in LaterInits(commands) :
        /\ i >= 1
        /\ AccumulatedBefore(commands, commands[i + 1].src, i) = "ShaderRead"
        /\ BarrierPositionsAt(stream, commands[i + 1].src, i) # {}

\* No blit of the list has one image as source and destination.
NoSelfBlit(cmds) ==
    \A i \in DOMAIN cmds : cmds[i].kind = "BlitFullImage" => cmds[i].src # cmds[i].dst

\* The state last established for X at position p of the stream s recorded
\* for cmds: the new access of the last barrier for X before p, or, when
\* there is none, the state assumed at X's first mention.
EstablishedState(s, cmds, X, p) ==
    LET earlier == {q \in 1..(p - 1) : IsBarrier(s[q]) /\ s[q].image = X}
    IN IF earlier = {} THEN DeclaredAccesses(cmds, X)[1]
       ELSE s[CHOOSE q \in earlier : \A r \in earlier : r <= q].new

\* C25: in a list with no blit of an image onto itself, when the stream
\* reaches a blit the source's established state is TransferRead and the
\* destination's is TransferWrite, and when it reaches a buffer-to-image copy
\* the image's is TransferWrite; the layout the emitted command names for the
\* image is the layout of that state.
C25_TransferStateAtCommand ==
    (Recorded /\ NoSelfBlit(commands)) =>
        \A p \in DOMAIN stream :
            LET command == IF IsBarrier(stream[p]) THEN RunRenderPass
                           ELSE commands[stream[p].idx + 1]
                src_state == EstablishedState(stream, commands, command.src, p)
                dst_state == EstablishedState(stream, commands, command.dst, p)
            IN /\ command.kind = "BlitFullImage" =>
                    /\ src_state = "TransferRead"
                    /\ dst_state = "TransferWrite"
                    /\ \A is_depth_format \in BOOLEAN :
                        /\ get_image_layout(src_state, is_depth_format)
                                = NamedLayouts(command).src
                        /\ get_image_layout(dst_state, is_depth_format)
                                = NamedLayouts(command).dst
               /\ command.kind = "CopyBufferToImageComplete" =>
                    /\ src_state = "TransferWrite"
                    /\ \A is_depth_format \in BOOLEAN :
                        get_image_layout(src_state, is_depth_format)
                            = NamedLayouts(command).src

C25_Witness ==
    /\ record_result = "ok"
    /\ NoSelfBlit(commands)
    /\ \E p \in DOMAIN stream :
        /\ stream[p].ev = "cmd_blit_image"
        /\ p >= 3
        /\ IsBarrier(stream[p - 1]) /\ IsBarrier(stream[p - 2])
        /\ stream[p - 1].old = "ShaderRead"
    /\ \E p \in DOMAIN stream : stream[p].ev = "cmd_copy_buffer_to_image"

\* C24: whenever paint has returned, with Ok or with an error, every
\* draw-complete CpuFuture is signaled or is the fence of a submission in the
\* queue, which will signal it: no later wait on it lasts forever.
C24_DrawFutureSignaledOrSubmitted ==
    (pc = "idle" /\ paint_result \in {"Ok", "Err"}) =>
        \A k \in Slots :
            \/ draw_complete_cpu_futs[k] = "signaled"
            \/ \E j \in DOMAIN gpu_queue : gpu_queue[j].fence = k

\* refresh_resolution returns an error in this step.
RefreshFails == pc \in {"refresh", "refresh_wait"} /\ pc' = "idle"

\* A step changes one of the fields refresh_resolution replaces.
SheetsChange ==
    \/ swapchain' # swapchain
    \/ swapchain_images' # swapchain_images
    \/ surface_resolution' # surface_resolution

\* C27: when refresh_resolution returns an error, at whichever step, the
\* swapchain handle, the image list and the recorded resolution are what they
\* were before the call; they change only in the step that ends a successful
\* refresh, all three to the new swapchain, its images and its extent, after
\* the submission that moved the new images to Present has completed.
C27_RefreshErrorLeavesSheets ==
    [][/\ RefreshFails =>
            /\ swapchain' = swapchain
            /\ swapchain_images' = swapchain_images
            /\ surface_resolution' = surface_resolution
       /\ SheetsChange =>
            /\ pc = "refresh_wait" /\ pc' = "refresh_fence_wait"
            /\ refresh_fence = "signaled"
            /\ swapchain' = new_swapchain
            /\ swapchain_images' = new_swapchain
            /\ surface_resolution' = new_resolution]_vars

C27_Witness ==
    /\ pc = "idle"
    /\ paint_result = "Err"
    /\ swapchains_created = 2
    /\ swapchain = 1
    /\ swapchain_images = 1
    /\ surface_resolution = 1
    /\ \E j \in DOMAIN gpu_queue : gpu_queue[j].cb = -1

\* C28: every allocation is given to allocator.free at most once, and once the
\* Allocator has been dropped every allocation its maps still tracked when the
\* drop began has been given to allocator.free, also when the free of one of
\* them fails.
C28_DropReleasesAllTracked ==
    /\ \A key \in AllocationKeys : free_calls[key] <= 1
    /\ allocator_drop.dropped =>
            \A key \in allocator_drop.tracked : free_calls[key] = 1

\* C21: in every order in which the objects of the Canvas are dropped, the
\* device is destroyed only when no handle created from it is left, and once
\* it is destroyed no handle is destroyed and no delete request is queued.
C21_DeviceDestroyedLast ==
    /\ [](teardown.device_destroyed => teardown.handles = {})
    /\ [][teardown.device_destroyed =>
            /\ teardown'.handles = teardown.handles
            /\ teardown'.channel = teardown.channel]_vars

\* The drawables update_inputs does not skip, in order.
KeptDrawables ==
    SelectSeq(mesh_painter.drawables,
              LAMBDA d : d.mesh_name \in MeshIDs /\ d.texture_name \in TextureIDs)

\* C30: every Draw that draw_meshes_command records reads only vertices of
\* its own drawable: each index stored in its index range, plus the draw's
\* vertex_offset, lies in [vert_offset, vert_offset + vertices of the mesh).
C30_DrawReadsOwnVertices ==
    mesh_painter.render_cmds # Nothing =>
        /\ Len(mesh_painter.render_cmds[1]) = Len(KeptDrawables)
        /\ \A j \in DOMAIN mesh_painter.render_cmds[1] :
            LET params == mesh_painter.per_frame_data.next_draw_params[j]
                mesh == mesh_painter.meshes[KeptDrawables[j].mesh_name]
            IN \A v \in VerticesRead(mesh_painter.per_frame_data.ib_data,
                                     mesh_painter.render_cmds[1][j]) :
                    /\ params.vert_offset <= v
                    /\ v < params.vert_offset + Len(mesh.vertices)

\* C26: when acquire_next_image has returned Ok(i), i is the index of the
\* call's last acquire, which the device answered with SUCCESS and which was
\* made on the swapchain that Sheets holds, a swapchain not destroyed; a call
\* given neither a fence nor a semaphore has returned an error and acquired
\* nothing.
C26_AcquireReturnsFreshIndex ==
    /\ acquire_call.result = "Ok" =>
            /\ acquire_call.answer = "SUCCESS"
            /\ acquire_call.image = frame_num
            /\ acquire_call.swapchain = swapchain
            /\ swapchain \notin destroyed_swapchains
    /\ (acquire_call.result # "none" /\ ~acquire_call.fence /\ ~acquire_call.semaphore) =>
            /\ acquire_call.result = "Err"
            /\ acquire_call.answer = "none"

\* The call returned Ok after a rebuild: the index comes from the new
\* swapchain, and the one acquired before the rebuild was dropped.
C26_Witness ==
    /\ acquire_call.result = "Ok"
    /\ acquire_call.swapchain = 2
    /\ stale_reports = 1
    /\ 1 \in destroyed_swapchains

\* A call without a fence and a semaphore has returned.
C26_WitnessNoSync ==
    /\ acquire_call.result = "Err"
    /\ ~acquire_call.fence
    /\ ~acquire_call.semaphore

\* The old state of the first barrier for image X in the stream s, Nothing
\* when the stream has no barrier for X.
FirstBarrierOld(s, X) ==
    LET bs == BarriersOf(s, X)
    IN IF bs = <<>> THEN Nothing ELSE Some(bs[1].old)

\* The states the frame's list of an acquired index on a swapchain assumes for
\* image X: the first access the list declares for X and the old state of the
\* first barrier for X in every stream record can produce for the list.
AssumedStates(frame_number, chain, X) ==
    {Some(DeclaredAccesses(FrameCommands(frame_number, chain), X)[1])}
        \cup {FirstBarrierOld(s, X) : s \in FrameStreams[frame_number, chain]}

FrameAssumes ==
    [frame_number \in Slots, chain \in Swapchains |->
        [render |-> AssumedStates(frame_number, chain, get_rendered_image(frame_number)),
         sheet |-> AssumedStates(frame_number, chain, swapchain_image(chain, frame_number))]]

\* C23: initialisation leaves every slot's render colour image in
\* TransferRead and every image of the held swapchain in Present, every
\* executed frame list and every rebuild of the swapchain keeps them there,
\* and these are the states the frame's list assumes: when a frame's list is
\* about to be submitted, the first access it declares for the render image
\* and for the acquired swapchain image, and the old state of the first
\* barrier recorded for either, are the state the image is in.
C23_FrameListStartStates ==
    /\ \A slot \in Slots : image_states[color_image(slot)] = "TransferRead"
    /\ \A i_id \in Slots : image_states[swapchain_image(swapchain_images, i_id)] = "Present"
    /\ pc = "submit" =>
            LET assumes == FrameAssumes[frame_num, swapchain_images]
            IN /\ assumes.render = {Some(image_states[get_rendered_image(frame_num)])}
               /\ assumes.sheet =
                    {Some(image_states[swapchain_image(swapchain_images, frame_num)])}

\* A frame's list is recorded for an image of a rebuilt swapchain after
\* lists of both slots were executed.
C23_Witness ==
    /\ pc = "submit"
    /\ swapchain_images = 2
    /\ \E j \in DOMAIN gpu_queue : gpu_queue[j].cb >= 0 /\ gpu_queue[j].cb # frame_num

\* paint is at the wait on the draw-complete future of the acquired index
\* (lib.rs 138-140) and no submission carrying that future is in flight: the
\* future is as Canvas::new created it or as the slot's last submission left it.
WaitsWithNothingInFlight ==
    /\ pc = "wait_draw"
    /\ ~\E j \in DOMAIN gpu_queue : gpu_queue[j].fence = frame_num /\ InFlight(j)

C29_WitnessFirstPaint ==
    /\ WaitsWithNothingInFlight
    /\ frame_num = NumFrames - 1
    /\ gpu_queue = <<>>
    /\ present_queue = <<>>
    /\ on_screen = "none"

====
